---- MODULE Spec2Model ----
\* Temporal signal fusion (src/signals/src/features/signal_generator.py), the
\* prediction ledger (src/signals/src/evaluation/scorecard.py) and the Monte
\* Carlo loss forecast (src/signals/src/simulation/monte_carlo.py).
\*
\* Dates are day numbers.  A nullable cell is <<>> (null) or <<v>>.  A free-text
\* name is a sequence of one-character strings, so that normalize_text is
\* computed character by character.  A rational is a reduced pair <<num, den>>.
\* A parquet file is the set of its rows: the order of the rows in the file is
\* chosen where a sort leaves it open.  A frame is the set of its rows too;
\* where a join can produce equal rows, each row carries the row of the right
\* frame it comes from (map_row, signal_row), which keeps the copies apart.
\* A name that a left join leaves null is Null; no name of the input files is
\* null or empty.
EXTENDS Integers, Sequences, FiniteSets, TLC

VARIABLES
    nadac,              \* nadac_history.parquet: set of rows
    events,             \* shortage_events.parquet: set of rows
    sentinel_risks,     \* sentinel_risks.parquet: set of rows
    events_normalized,  \* generate_features: the sorted, normalized event frame
    shortage_joined,    \* generate_features: result of the shortage join_asof
    agg_risks,          \* integrate_sentinel_risk: the aggregated risk frame
    master_table,       \* weekly_features.parquet as written by the last run
    prev_table,         \* the output of the run before the last one
    runs,               \* number of generate_features runs so far
    features_file,      \* weekly_features.parquet as read by the scorecard
    registry,           \* the registry DataFrame the caller of the ledger holds
    prev_registry,      \* the registry handed to the last ledger call
    log_outcome,        \* how the last log_new_predictions call ended
    log_calls,          \* successive log calls on the present features_file
    nadac_truth,        \* nadac_history.parquet: [ndc11, effective_date, price_per_unit]
    today,              \* datetime.now().date()
    absent,             \* the input files that do not exist
    reconcile_outcome,  \* how the last reconcile_pending call ended
    reconcile_calls,    \* successive reconcile calls on the present prices and date
    registry_file,      \* prediction_registry.parquet: NoFile or its rows
    status,             \* per scorecard run: idle, running, failed or done
    steps_done,         \* per run: number of ledger steps completed
    run_registry,       \* per run: the variable registry of __main__
    loaded,             \* per run: the registry initialize_registry returned
    calls,              \* per run: the ledger operations called so far
    ndc_entity_map,     \* ndc_entity_map.parquet
    market_stats,       \* generate_features, phase 1: the share frame
    competition_features, \* generate_features, phase 1: the market structure output
    mock_features,      \* the frame handed to a direct integrate_sentinel_risk call
    enriched_df,        \* what that call returned
    portfolio_df,       \* forecast_inflation: the portfolio, a sequence of rows
    simulated_losses,   \* forecast_inflation: per drug, the loss of each simulation
    results,            \* forecast_inflation: the rows of the returned frame
    forecast_outcome    \* how the last forecast_inflation call ended

fvars == <<nadac, events, sentinel_risks, events_normalized, shortage_joined,
           agg_risks, master_table, prev_table, runs>>

lvars == <<features_file, registry, prev_registry, log_outcome, log_calls>>

rvars == <<nadac_truth, today, absent, reconcile_outcome, reconcile_calls>>

cvars == <<registry_file, status, steps_done, run_registry, loaded, calls>>

mvars == <<ndc_entity_map, market_stats, competition_features>>

ivars == <<mock_features, enriched_df>>

svars == <<portfolio_df, simulated_losses, results, forecast_outcome>>

vars == <<fvars, lvars, rvars, cvars, mvars, ivars, svars>>

----------------------------------------------------------------------------
\* Bounds of the model.

\* Total number of rows in the three input files of generate_features.
MaxRows == 4
\* Number of times generate_features is run over the same input files.
MaxRuns == 2

\* Rows of the feature table the scorecard reads.
MaxFeatureRows == 2
\* Rows of the registry a ledger call sequence starts from.
MaxRegistryRows == 1
\* Successive calls of log_new_predictions on one feature table.
MaxLogCalls == 2

\* Total number of rows of the registry, the price history and the feature
\* table a sequence of reconcile and log calls starts from.
MaxLedgerRows == 3
\* Successive calls of reconcile_pending on one price history and date.
MaxReconcileCalls == 2

\* Total number of rows of the registry file, the price history and the
\* feature table the scorecard runs start from.
MaxCycleRows == 2

\* Product lines one manufacturer has in the market under study.
MaxLines == 5
\* Price rows outside the market under study.
MaxOtherRows == 1

\* Total number of rows of the price history and the two event files the
\* composition of the feature table is studied on.
MaxComposeRows == 2

\* Total number of rows of the frame and of the risk file of a direct call of
\* integrate_sentinel_risk.
MaxMockRows == 3

\* num_simulations of the simulator.
NumSimulations == 2

\* Observations of the entity whose price dynamics are under study.
MaxObs == 13
\* Observations of that entity priced high.
MaxHigh == 2

\* Program constants.
ToleranceDays == 90
LookaheadDays == 28

----------------------------------------------------------------------------
\* Generic helpers for nullable cells, rationals and frames.

Null == <<>>
Some(v) == <<v>>
FillNull(cell, v) == IF cell = Null THEN v ELSE cell[1]

\* A parquet file that may not exist, with its rows in file order.
NoFile == [exists |-> FALSE, rows |-> <<>>]
File(rows) == [exists |-> TRUE, rows |-> rows]

Max(S) == CHOOSE x \in S : \A y \in S : y <= x

RECURSIVE GCD(_, _)
GCD(a, b) == IF b = 0 THEN a ELSE GCD(b, a % b)
\* n / d as a reduced fraction (d > 0).
Rat(n, d) == LET g == GCD(n, d) IN <<n \div g, d \div g>>

\* Sum and square of reduced fractions.
RatAdd(p, q) == Rat(p[1] * q[2] + q[1] * p[2], p[2] * q[2])
RatSquare(p) == Rat(p[1] * p[1], p[2] * p[2])
\* Difference, and quotient by a positive fraction.
RatSub(p, q) == Rat(p[1] * q[2] - q[1] * p[2], p[2] * q[2])
RatDiv(p, q) == Rat(p[1] * q[2], p[2] * q[1])
\* Product, order and minimum.
RatMul(p, q) == Rat(p[1] * q[1], p[2] * q[2])
RatLess(p, q) == p[1] * q[2] < q[1] * p[2]
RatMin(p, q) == IF RatLess(q, p) THEN q ELSE p

\* The non-negative number whose square is the fraction q: the value of a
\* square root, which is kept exact this way.
Root(q) == [squared |-> q]

RECURSIVE SeqsOf(_)
\* All orderings of the rows of a frame.
SeqsOf(S) ==
    IF S = {} THEN {<<>>}
    ELSE UNION {{<<x>> \o t : t \in SeqsOf(S \ {x})} : x \in S}

\* DataFrame.sort("event_date") with maintain_order left at its default
\* (False): the result is ordered by event_date and rows with equal dates come
\* in any order, whatever the order of the rows in the file.
SortOutcomes(S) ==
    {s \in SeqsOf(S) :
        \A i \in 1..(Len(s) - 1) : s[i].event_date <= s[i + 1].event_date}

----------------------------------------------------------------------------
\* normalize_text.

Alphabet == {"a", "b", "c", "A", "B", "C", "-", " "}
UpperAlnum == {"A", "B", "C"}
Whitespace == {" "}

Upper(c) ==
    CASE c = "a" -> "A"
      [] c = "b" -> "B"
      [] c = "c" -> "C"
      [] OTHER -> c

\* .str.to_uppercase()
ToUppercase(s) == [i \in DOMAIN s |-> Upper(s[i])]

\* .str.replace_all(r"[^A-Z0-9\s]", "")
KeepChar(c) == c \in UpperAlnum \cup Whitespace
ReplaceAll(s) == SelectSeq(s, KeepChar)

\* .str.split(" ").list.get(0): the text before the first space
FirstToken(s) ==
    LET sp == {i \in DOMAIN s : s[i] = " "}
    IN IF sp = {} THEN s
       ELSE SubSeq(s, 1, (CHOOSE i \in sp : \A j \in sp : i <= j) - 1)

normalize_text(s) == FirstToken(ReplaceAll(ToUppercase(s)))

----------------------------------------------------------------------------
\* Input data of generate_features.

NDCs == {"N1", "N2"}

\* ndc_entity_map.parquet: one row per ndc11 with free-text names.
entity_map ==
    [n \in NDCs |->
        IF n = "N1"
        THEN [ingredient |-> <<"a", "b">>, manufacturer |-> <<"A", "b">>]
        ELSE [ingredient |-> <<"b", " ", "c">>, manufacturer |-> <<"C">>]]

\* The file of a map that has exactly one row for every ndc11.
EntityMapRows ==
    {[ndc11 |-> n, drug_description |-> "D1",
      ingredient |-> entity_map[n].ingredient,
      manufacturer |-> entity_map[n].manufacturer] : n \in NDCs}

SpineDates == {10, 101}
SpinePrices == {10}
ShortageDates == {0, 10, 102}
RiskDates == {0, 10, 11}
GenericNames == {<<"A", "-", "B">>, <<"B">>}
RiskManufacturers == {<<"A", "b">>, <<"A", "B">>}
EventTypes == {"shortage_start", "shortage_resolved"}
Severities == {3, 9}

SpineRows == [effective_date : SpineDates, ndc11 : NDCs,
              price_per_unit : SpinePrices]
EventRows == [event_date : ShortageDates, generic_name : GenericNames,
              event_type : EventTypes]
RiskRows == [event_date : RiskDates, manufacturer : RiskManufacturers,
             severity_score : Severities]

RECURSIVE SubsetsUpTo(_, _)
\* The subsets of S with at most k elements.
SubsetsUpTo(S, k) ==
    IF k <= 0 THEN {{}}
    ELSE LET smaller == SubsetsUpTo(S, k - 1)
         IN smaller \cup {T \cup {x} : T \in smaller, x \in S}

SpineTables == SubsetsUpTo(SpineRows, MaxRows) \ {{}}
EventTables == [k \in 0..MaxRows |-> SubsetsUpTo(EventRows, k)]
RiskTables == [k \in 0..MaxRows |-> SubsetsUpTo(RiskRows, k)]

----------------------------------------------------------------------------
\* generate_features, phase 2: price dynamics.
\*
\* nadac_ingest keeps one row per (effective_date, ndc11) and only positive
\* prices, so the rows of an ndc11 have distinct dates and no lag or mean is 0.
\* Prices are whole numbers and the features exact fractions where the code
\* has floats.

\* shift(4)
LagRows == 4
\* window_size=12
WindowRows == 12

RECURSIVE SortedByDate(_)
\* The rows of one ndc11 in the order of .sort(["ndc11", "effective_date"]).
SortedByDate(rows) ==
    IF rows = {} THEN <<>>
    ELSE LET first == CHOOSE x \in rows :
                          \A y \in rows : x.effective_date <= y.effective_date
         IN <<first>> \o SortedByDate(rows \ {first})

\* Variant of EntitySeries: the window is the whole sorted frame.
WholeSeries(nd, n) == SortedByDate(nd)
\* .over("ndc11"): the window of an expression is the rows of one ndc11
EntitySeries(nd, n) == SortedByDate({r \in nd : r.ndc11 = n})

\* pl.col("price_per_unit").shift(4): the price four rows earlier in the
\* window, null on the first four rows
PriceLag4w(s, i) ==
    IF i > LagRows THEN Some(s[i - LagRows].price_per_unit) ELSE Null

\* Variant of RollingWindow: every row up to the i-th, once there are twelve.
ExpandingWindow(s, i) ==
    IF i >= WindowRows
    THEN Some([k \in 1..i |-> s[k].price_per_unit])
    ELSE Null
\* rolling_*(window_size=12): the last twelve prices up to and including row
\* i; min_periods defaults to the window size, so the result is null on a
\* shorter window
RollingWindow(s, i) ==
    IF i >= WindowRows
    THEN Some([k \in 1..WindowRows |-> s[i - WindowRows + k].price_per_unit])
    ELSE Null

RECURSIVE SumSeq(_)
SumSeq(w) == IF w = <<>> THEN 0 ELSE w[1] + SumSeq(Tail(w))

\* rolling_mean
Mean(w) == Rat(SumSeq(w), Len(w))

RECURSIVE SumSquaredDeviations(_, _)
SumSquaredDeviations(w, m) ==
    IF w = <<>> THEN Rat(0, 1)
    ELSE RatAdd(RatSquare(RatSub(Rat(w[1], 1), m)),
                SumSquaredDeviations(Tail(w), m))

\* The square of rolling_std (ddof=1, the default).
Variance(w) ==
    RatDiv(SumSquaredDeviations(w, Mean(w)), Rat(Len(w) - 1, 1))

\* (price_per_unit - price_lag_4w) / price_lag_4w, null on a null lag
PriceVelocity4w(price, lag) ==
    IF lag = Null THEN Null ELSE Some(Rat(price - lag[1], lag[1]))

\* std_12w / mean_12w, null on a null window
PriceVolatility12w(window) ==
    IF window = Null THEN Null
    ELSE Some(Root(RatDiv(Variance(window[1]), RatSquare(Mean(window[1])))))

\* The price_features frame: the rows of nadac with the two features, nulls
\* filled with 0.
price_features(nd) ==
    UNION {LET s == EntitySeries(nd, n)
           IN {[effective_date |-> s[i].effective_date,
                ndc11 |-> s[i].ndc11,
                price_per_unit |-> s[i].price_per_unit,
                price_velocity_4w |->
                    FillNull(PriceVelocity4w(s[i].price_per_unit,
                                             PriceLag4w(s, i)), Rat(0, 1)),
                price_volatility_12w |->
                    FillNull(PriceVolatility12w(RollingWindow(s, i)),
                             Root(Rat(0, 1)))] : i \in DOMAIN s}
           : n \in {r.ndc11 : r \in nd}}

----------------------------------------------------------------------------
\* generate_features, phase 3: the shortage join.

\* The rows of the entity map of one ndc11.
MapRows(emap, n) == {e \in emap : e.ndc11 = n}

\* nadac.select(...).join(entity_map, how="left").with_columns(normalize_text(ingredient)):
\* one row per pair of a price row and a map row of its ndc11, and one row of
\* nulls for a price row whose ndc11 the map does not have.
spine_enhanced(nd, emap) ==
    UNION {IF MapRows(emap, r.ndc11) = {}
           THEN {[effective_date |-> r.effective_date, ndc11 |-> r.ndc11,
                  drug_description |-> Null, ingredient |-> Null,
                  manufacturer |-> Null, join_key |-> normalize_text(Null)]}
           ELSE {[effective_date |-> r.effective_date, ndc11 |-> r.ndc11,
                  drug_description |-> Some(e.drug_description),
                  ingredient |-> e.ingredient,
                  manufacturer |-> e.manufacturer,
                  join_key |-> normalize_text(e.ingredient)]
                 : e \in MapRows(emap, r.ndc11)}
           : r \in nd}

\* events.with_columns(normalize_text(generic_name)).sort("event_date").select(...)
EventsNormalizedOutcomes(ev) ==
    {[i \in DOMAIN s |->
        [event_date |-> s[i].event_date,
         join_key |-> normalize_text(s[i].generic_name),
         event_type |-> s[i].event_type]] : s \in SortOutcomes(ev)}

\* Variant of AsofCandidates: strategy="forward".
AsofCandidatesForward(right, group, d) ==
    {i \in group : right[i].event_date >= d}

\* join_asof(strategy="backward"): the rows of the by-group of a left row
\* dated d that are dated at or before d (group: their positions in right).
AsofCandidates(right, group, d) ==
    {i \in group : right[i].event_date <= d}

\* Variant of AsofBackward: the first candidate instead of the last.
AsofOldest(right, group, d) ==
    LET c == AsofCandidates(right, group, d)
    IN IF c = {} THEN 0 ELSE CHOOSE i \in c : \A j \in c : i <= j

\* The right row join_asof attaches: the last candidate in the sorted right
\* frame (0: none).
AsofBackward(right, group, d) ==
    LET c == AsofCandidates(right, group, d)
    IN IF c = {} THEN 0 ELSE Max(c)

\* spine_enhanced.join_asof(events_normalized, by="join_key", strategy="backward")
ShortageMatch(r, evs) ==
    AsofBackward(evs, {i \in DOMAIN evs : /\ r.join_key # Null
                                          /\ evs[i].join_key = r.join_key},
                 r.effective_date)

ShortageJoin(spine, evs) ==
    {LET m == ShortageMatch(r, evs)
     IN [effective_date |-> r.effective_date, ndc11 |-> r.ndc11,
         drug_description |-> r.drug_description,
         join_key |-> r.join_key,
         event_date |-> IF m = 0 THEN Null ELSE Some(evs[m].event_date),
         event_type |-> IF m = 0 THEN Null ELSE Some(evs[m].event_type)]
     : r \in spine}

\* pl.when(event_type == "shortage_start").then(1).otherwise(0)
IsShortage(j) == IF j.event_type = Some("shortage_start") THEN 1 ELSE 0

\* .then((effective_date - event_date).dt.total_days() / 7).otherwise(0)
WeeksInShortage(j) ==
    IF j.event_type = Some("shortage_start")
    THEN Rat(j.effective_date - j.event_date[1], 7)
    ELSE Rat(0, 1)

\* ... .select(["effective_date", "ndc11", "is_shortage", "weeks_in_shortage"]):
\* one row per row of the join; signal_row tells the rows of one
\* (effective_date, ndc11) apart.
shortage_signals(joined) ==
    {[effective_date |-> j.effective_date, ndc11 |-> j.ndc11,
      is_shortage |-> IsShortage(j),
      weeks_in_shortage |-> WeeksInShortage(j),
      signal_row |-> j.drug_description] : j \in joined}

----------------------------------------------------------------------------
\* generate_features, phase 4: the merge onto the price rows.

\* price_features.join(entity_map.select(["ndc11", "ingredient", "manufacturer"]),
\*     on="ndc11", how="left"): one row per map row of the ndc11; map_row tells
\* the rows of one price row apart.
JoinEntityMap(pf, emap) ==
    UNION {IF MapRows(emap, r.ndc11) = {}
           THEN {r @@ [ingredient |-> Null, manufacturer |-> Null,
                       map_row |-> Null]}
           ELSE {r @@ [ingredient |-> e.ingredient,
                       manufacturer |-> e.manufacturer,
                       map_row |-> Some(e.drug_description)]
                 : e \in MapRows(emap, r.ndc11)}
           : r \in pf}

\* .join(competition_features, on=["effective_date", "ingredient"], how="left");
\* a null ingredient matches no row
JoinCompetition(rows, comp) ==
    UNION {LET hits == {c \in comp : /\ r.ingredient # Null
                                     /\ c.effective_date = r.effective_date
                                     /\ c.ingredient = r.ingredient}
           IN IF hits = {}
              THEN {r @@ [market_hhi |-> Null, num_competitors |-> Null]}
              ELSE {r @@ [market_hhi |-> Some(c.market_hhi),
                          num_competitors |-> Some(c.num_competitors)]
                    : c \in hits}
           : r \in rows}

\* .join(shortage_signals, on=["effective_date", "ndc11"], how="left")
MergeShortage(rows, signals) ==
    UNION {LET hits == {s \in signals : s.effective_date = r.effective_date
                                        /\ s.ndc11 = r.ndc11}
           IN IF hits = {}
              THEN {r @@ [is_shortage |-> Null, weeks_in_shortage |-> Null,
                          signal_row |-> Null]}
              ELSE {r @@ [is_shortage |-> Some(s.is_shortage),
                          weeks_in_shortage |-> Some(s.weeks_in_shortage),
                          signal_row |-> s.signal_row]
                    : s \in hits}
           : r \in rows}

----------------------------------------------------------------------------
\* integrate_sentinel_risk.

\* sentinel_risks.group_by(["event_date", "manufacturer"]).agg(pl.max("severity_score"))
GroupMaxSeverity(risks) ==
    {[event_date |-> g[1], manufacturer |-> g[2],
      severity_score |-> Max({x.severity_score : x \in
          {y \in risks : y.event_date = g[1] /\ y.manufacturer = g[2]}})]
     : g \in {<<x.event_date, x.manufacturer>> : x \in risks}}

\* ... .sort("event_date")
AggRisksOutcomes(risks) == SortOutcomes(GroupMaxSeverity(risks))

\* Variant of WithinTolerance: the window is one day too long.
WithinToleranceOffByOne(d, ed) == d - ed <= ToleranceDays + 1

\* tolerance="90d": a match older than 90 days is dropped
WithinTolerance(d, ed) == d - ed <= ToleranceDays

\* features_sorted.join_asof(agg_risks, by="manufacturer", strategy="backward",
\*                           tolerance="90d")
RiskMatch(r, ar) ==
    LET m == AsofBackward(ar,
                 {i \in DOMAIN ar : /\ r.manufacturer # Null
                                    /\ ar[i].manufacturer = r.manufacturer},
                 r.effective_date)
    IN IF m # 0 /\ WithinTolerance(r.effective_date, ar[m].event_date)
       THEN m ELSE 0

\* The joined frame with manufacturer_risk_score = severity_score.fill_null(0);
\* the event_date column of agg_risks stays in the frame.
IntegrateSentinelRisk(features, ar) ==
    {LET m == RiskMatch(r, ar)
     IN r @@ [event_date |-> IF m = 0 THEN Null ELSE Some(ar[m].event_date),
              manufacturer_risk_score |->
                  FillNull(IF m = 0 THEN Null ELSE Some(ar[m].severity_score), 0)]
     : r \in features}

\* Variant of WithLitZero: the literal is 1.
WithLitOne(features_df) ==
    {r @@ [manufacturer_risk_score |-> 1] : r \in features_df}
\* features_df.with_columns(pl.lit(0).alias("manufacturer_risk_score"))
WithLitZero(features_df) ==
    {r @@ [manufacturer_risk_score |-> 0] : r \in features_df}

\* "manufacturer" not in features_df.columns
LacksManufacturer(features_df) ==
    \E r \in features_df : "manufacturer" \notin DOMAIN r

\* integrate_sentinel_risk(features_df), with ar the aggregated risk frame
\* and gone the files that do not exist.
integrate_sentinel_risk(features_df, ar, gone) ==
    IF "sentinel_risks" \in gone THEN WithLitZero(features_df)
    ELSE IF LacksManufacturer(features_df) THEN WithLitZero(features_df)
         ELSE IntegrateSentinelRisk(features_df, ar)

\* Variant of FillDefaults: every default is 0.
FillDefaultsAllZero(table) ==
    {[r EXCEPT !.market_hhi = FillNull(@, Rat(0, 1)),
               !.num_competitors = FillNull(@, 0),
               !.is_shortage = FillNull(@, 0),
               !.weeks_in_shortage = FillNull(@, Rat(0, 1))] : r \in table}
\* master_table.with_columns([market_hhi.fill_null(0), num_competitors.fill_null(1),
\*     is_shortage.fill_null(0), weeks_in_shortage.fill_null(0)])
FillDefaults(table) ==
    {[r EXCEPT !.market_hhi = FillNull(@, Rat(0, 1)),
               !.num_competitors = FillNull(@, 1),
               !.is_shortage = FillNull(@, 0),
               !.weeks_in_shortage = FillNull(@, Rat(0, 1))] : r \in table}

----------------------------------------------------------------------------
\* The prediction ledger (scorecard.py).
\*
\* A registry is a sequence of rows.  The columns drug_name and
\* predicted_risk_score, which come from the description lookup and from the
\* pickled model, take part in no property and are left out of the rows; they
\* are kept in the column sets below, which decide whether an expression or a
\* select finds its columns.

LedgerDates == {0, 7}
Prices == {100, 115}

\* Rows of weekly_features.parquet, one per (effective_date, ndc11).
FeatureCells == [effective_date : LedgerDates, ndc11 : NDCs,
                 price_per_unit : Prices]
FeatureFiles ==
    {f \in SubsetsUpTo(FeatureCells, MaxFeatureRows) :
        \A a, b \in f :
            (a.effective_date = b.effective_date /\ a.ndc11 = b.ndc11) => a = b}

\* initialize_registry: the schema of the registry.
RegistryColumns ==
    {"prediction_id", "prediction_date", "target_date", "ndc11", "drug_name",
     "start_price", "predicted_risk_score", "actual_price", "price_change_pct",
     "status"}

\* log_new_predictions, step 4: the columns the select keeps ...
SelectColumns ==
    {"prediction_date", "ndc11", "drug_name", "start_price",
     "predicted_risk_score"}
\* ... and the columns the with_columns after it reads and adds.
WithColumnsReads == {"prediction_date", "effective_date", "ndc11"}
WithColumnsAdds == {"target_date", "status", "prediction_id"}

\* concat_str([effective_date.cast(Utf8), ndc11], separator="-")
PredictionId(d, n) == ToString(d) \o "-" \o n

\* prediction_date.dt.offset_by("28d")
TargetDate(d) == d + LookaheadDays

\* latest_market_df.filter(effective_date == effective_date.max())
LatestSlice(feats) ==
    {r \in feats : r.effective_date = Max({x.effective_date : x \in feats})}

\* The frame of step 4: one row per row of the latest slice.
NewPredictions(feats) ==
    {[prediction_id |-> PredictionId(r.effective_date, r.ndc11),
      prediction_date |-> r.effective_date,
      target_date |-> TargetDate(r.effective_date),
      ndc11 |-> r.ndc11,
      start_price |-> r.price_per_unit,
      status |-> "PENDING"] : r \in LatestSlice(feats)}

\* new_predictions_df.join(registry_df, on="prediction_id", how="anti")
AntiJoin(new, reg) ==
    {r \in new : \A i \in DOMAIN reg : reg[i].prediction_id # r.prediction_id}

Raised == [raised |-> TRUE, df |-> <<>>]
Returned(df) == [raised |-> FALSE, df |-> df]

\* The files log_new_predictions reads (lines 55 and 75).
LogInputs == {"weekly_features", "nadac_history"}

\* log_new_predictions(registry_df): the ways a call can end.  The reads of
\* the input files are not guarded.  An expression that names a column its
\* frame does not have raises ColumnNotFoundError (line 88 reads
\* effective_date from the frame the select of line 79 made; line 102 selects
\* the registry's columns from the new rows).
log_new_predictions(reg, feats, gone) ==
    IF LogInputs \cap gone # {} THEN {Raised}
    ELSE IF ~(WithColumnsReads \subseteq SelectColumns)
    THEN {Raised}
    ELSE LET new_unique_rows == AntiJoin(NewPredictions(feats), reg)
         IN IF new_unique_rows = {}
            THEN {Returned(reg)}
            ELSE IF ~(RegistryColumns \subseteq SelectColumns \cup WithColumnsAdds)
                 THEN {Raised}
                 ELSE {Returned(reg \o rows) : rows \in SeqsOf(new_unique_rows)}

\* A PENDING row of the registry schema for a feature row.
PendingRow(r) ==
    [prediction_id |-> PredictionId(r.effective_date, r.ndc11),
     prediction_date |-> r.effective_date,
     target_date |-> TargetDate(r.effective_date),
     ndc11 |-> r.ndc11,
     start_price |-> r.price_per_unit,
     actual_price |-> Null,
     price_change_pct |-> Null,
     status |-> "PENDING"]

\* The registries a call sequence starts from: the empty registry that
\* initialize_registry creates, or a registry file with rows.
StartRegistries ==
    UNION {SeqsOf({PendingRow(r) : r \in f})
           : f \in {g \in FeatureFiles : Cardinality(g) <= MaxRegistryRows}}

InitLedger ==
    /\ features_file \in FeatureFiles
    /\ registry \in StartRegistries
    /\ prev_registry = registry
    /\ log_outcome = "none"
    /\ log_calls = 0
    /\ nadac_truth = {}
    /\ today = 0
    /\ absent = {}
    /\ reconcile_outcome = "none"
    /\ reconcile_calls = 0
    /\ registry_file = NoFile
    /\ status = <<>>
    /\ steps_done = <<>>
    /\ run_registry = <<>>
    /\ loaded = <<>>
    /\ calls = <<>>
    /\ mock_features = {}
    /\ enriched_df = {}
    /\ portfolio_df = <<>>
    /\ simulated_losses = <<>>
    /\ results = <<>>
    /\ forecast_outcome = "none"
    /\ ndc_entity_map = {}
    /\ market_stats = {}
    /\ competition_features = {}
    /\ nadac = {}
    /\ events = {}
    /\ sentinel_risks = {}
    /\ events_normalized = <<>>
    /\ shortage_joined = {}
    /\ agg_risks = <<>>
    /\ master_table = {}
    /\ prev_table = {}
    /\ runs = 0

\* registry = log_new_predictions(registry): when the call raises, the
\* caller's registry is not assigned.
LogNewPredictions ==
    /\ log_calls < MaxLogCalls
    /\ \E out \in log_new_predictions(registry, features_file, absent) :
         /\ log_outcome' = IF out.raised THEN "raised" ELSE "returned"
         /\ registry' = IF out.raised THEN registry ELSE out.df
    /\ prev_registry' = registry
    /\ log_calls' = log_calls + 1
    /\ reconcile_outcome' = "none"
    /\ reconcile_calls' = 0
    /\ UNCHANGED <<features_file, nadac_truth, today, absent>>
    /\ UNCHANGED <<fvars, cvars, mvars, ivars, svars>>

\* The feature pipeline writes a new weekly_features.parquet.
WriteFeatures ==
    /\ \E f \in FeatureFiles : f # features_file /\ features_file' = f
    /\ log_outcome' = "none"
    /\ log_calls' = 0
    /\ UNCHANGED <<registry, prev_registry>>
    /\ UNCHANGED <<fvars, rvars, cvars, mvars, ivars, svars>>

NextLedger == LogNewPredictions \/ WriteFeatures

SpecLedger == InitLedger /\ [][NextLedger]_vars

----------------------------------------------------------------------------
\* reconcile_pending (scorecard.py).

TruthDates == {0, 21, 28, 36}
Todays == {27, 28, 35}

\* Rows of nadac_history.parquet, one per (effective_date, ndc11).
TruthCells == [ndc11 : NDCs, effective_date : TruthDates,
               price_per_unit : Prices]
TruthTables ==
    [k \in 0..(MaxLedgerRows + 1) |->
        {t \in SubsetsUpTo(TruthCells, k) :
            \A a, b \in t :
                (a.effective_date = b.effective_date /\ a.ndc11 = b.ndc11)
                    => a = b}]

\* registry_df.filter((status == "PENDING") & (target_date <= now)): the
\* positions of the rows to reconcile.
DuePendingAnyStatus(reg, now) ==
    {i \in DOMAIN reg : reg[i].target_date <= now}
DuePending(reg, now) ==
    {i \in DOMAIN reg :
        reg[i].status = "PENDING" /\ reg[i].target_date <= now}

\* nadac_truth.sort("effective_date"), the right frame of the join_asof; its
\* right_on column effective_date is the event_date of the asof operators.
TruthSortOutcomes(truth) ==
    SortOutcomes({[event_date |-> t.effective_date, ndc11 |-> t.ndc11,
                   price_per_unit |-> t.price_per_unit] : t \in truth})

\* join_asof(nadac_truth, left_on="target_date", right_on="effective_date",
\* by="ndc11"): the price_per_unit cell the join attaches to a registry row.
TruthPrice(row, ts) ==
    LET m == AsofBackward(ts, {i \in DOMAIN ts : ts[i].ndc11 = row.ndc11},
                          row.target_date)
    IN IF m = 0 THEN Null ELSE Some(ts[m].price_per_unit)

\* The change relative to the new price instead of the start price.
PriceChangePctOfActual(price, start) == Rat(price - start, price)
\* (price_per_unit - start_price) / start_price
PriceChangePct(price, start) == Rat(price - start, start)

\* reconciled_df.with_columns(actual_price, price_change_pct, status)
UpdatedRow(row, ts) ==
    LET p == TruthPrice(row, ts)
    IN [row EXCEPT
          !.actual_price = p,
          !.price_change_pct =
              IF p # Null THEN Some(PriceChangePct(p[1], row.start_price))
              ELSE Null,
          !.status = IF p # Null THEN "RESOLVED" ELSE "PENDING"]

\* The updated rows of every PENDING row, due or not.
UpdatedRowsOfAllPending(reg, ts, now) ==
    {UpdatedRow(reg[i], ts) : i \in {j \in DOMAIN reg : reg[j].status = "PENDING"}}
UpdatedRows(reg, ts, now) ==
    {UpdatedRow(reg[i], ts) : i \in DuePending(reg, now)}

\* Variant of Coalesce: the value of the registry stays.
KeepOld(new, old) == old
\* DataFrame.update: a null of the other frame does not overwrite.
Coalesce(new, old) == IF new # Null THEN new ELSE old

\* DataFrame.update(other, on="prediction_id") for one row of the registry:
\* a left join on prediction_id (unique in every registry of the model), then
\* every other column takes the other frame's value.
UpdateRow(row, other) ==
    LET hits == {u \in other : u.prediction_id = row.prediction_id}
    IN IF hits = {} THEN row
       ELSE LET u == CHOOSE x \in hits : TRUE
            IN [prediction_id |-> row.prediction_id,
                prediction_date |-> u.prediction_date,
                target_date |-> u.target_date,
                ndc11 |-> u.ndc11,
                start_price |-> u.start_price,
                actual_price |-> Coalesce(u.actual_price, row.actual_price),
                price_change_pct |->
                    Coalesce(u.price_change_pct, row.price_change_pct),
                status |-> u.status]

\* The registry with the updated rows appended instead of updated in place.
UpdateByConcat(reg, other) ==
    reg \o (CHOOSE s \in SeqsOf(other) : TRUE)
Update(reg, other) ==
    [i \in DOMAIN reg |-> UpdateRow(reg[i], other)]

\* reconcile_pending(registry_df): the ways a call can end.  The price
\* history is read only when some row is due, and the read is not guarded.
reconcile_pending(reg, truth, now, gone) ==
    IF DuePending(reg, now) = {} THEN {Returned(reg)}
    ELSE IF "nadac_history" \in gone THEN {Raised}
         ELSE {Returned(Update(reg, UpdatedRows(reg, ts, now)))
               : ts \in TruthSortOutcomes(truth)}

\* The registries a sequence of reconcile and log calls starts from: up to k
\* PENDING rows with distinct prediction ids.
PendingRegistries ==
    [k \in 0..(MaxLedgerRows + 1) |->
        UNION {SeqsOf({PendingRow(r) : r \in f})
               : f \in {g \in SubsetsUpTo(FeatureCells, k) :
                          \A a, b \in g :
                              (a.effective_date = b.effective_date
                               /\ a.ndc11 = b.ndc11) => a = b}}]

\* The feature tables of up to k rows.
FeatureFilesUpTo ==
    [k \in 0..(MaxLedgerRows + 1) |->
        {f \in FeatureFiles : Cardinality(f) <= k}]

\* Rows left of the budget after the registry and the feature table.
RowsLeft == MaxLedgerRows - Len(registry) - Cardinality(features_file)

InitReconcile ==
    /\ registry \in PendingRegistries[MaxLedgerRows]
    /\ features_file \in FeatureFilesUpTo[MaxLedgerRows - Len(registry)]
    /\ nadac_truth \in TruthTables[RowsLeft]
    /\ today \in Todays
    /\ absent = {}
    /\ prev_registry = registry
    /\ log_outcome = "none"
    /\ log_calls = 0
    /\ reconcile_outcome = "none"
    /\ reconcile_calls = 0
    /\ registry_file = NoFile
    /\ status = <<>>
    /\ steps_done = <<>>
    /\ run_registry = <<>>
    /\ loaded = <<>>
    /\ calls = <<>>
    /\ mock_features = {}
    /\ enriched_df = {}
    /\ portfolio_df = <<>>
    /\ simulated_losses = <<>>
    /\ results = <<>>
    /\ forecast_outcome = "none"
    /\ ndc_entity_map = {}
    /\ market_stats = {}
    /\ competition_features = {}
    /\ nadac = {}
    /\ events = {}
    /\ sentinel_risks = {}
    /\ events_normalized = <<>>
    /\ shortage_joined = {}
    /\ agg_risks = <<>>
    /\ master_table = {}
    /\ prev_table = {}
    /\ runs = 0

\* registry = reconcile_pending(registry): when the call raises, the caller's
\* registry is not assigned.
ReconcilePending ==
    /\ reconcile_calls < MaxReconcileCalls
    /\ \E out \in reconcile_pending(registry, nadac_truth, today, absent) :
         /\ reconcile_outcome' = IF out.raised THEN "raised" ELSE "returned"
         /\ registry' = IF out.raised THEN registry ELSE out.df
    /\ prev_registry' = registry
    /\ reconcile_calls' = reconcile_calls + 1
    /\ log_outcome' = "none"
    /\ log_calls' = 0
    /\ UNCHANGED <<features_file, nadac_truth, today, absent>>
    /\ UNCHANGED <<fvars, cvars, mvars, ivars, svars>>

\* nadac_ingest rewrites nadac_history.parquet: the price of a new (week,
\* entity) arrives, or a published price is restated.
IngestPrices ==
    /\ \E c \in TruthCells :
         LET same == {t \in nadac_truth : t.effective_date = c.effective_date
                                          /\ t.ndc11 = c.ndc11}
         IN /\ c \notin nadac_truth
            /\ same # {} \/ Cardinality(nadac_truth) < RowsLeft
            /\ nadac_truth' = (nadac_truth \ same) \cup {c}
    /\ reconcile_outcome' = "none"
    /\ reconcile_calls' = 0
    /\ UNCHANGED <<today, absent>>
    /\ UNCHANGED <<fvars, lvars, cvars, mvars, ivars, svars>>

\* Time passes.
AdvanceClock ==
    /\ \E d \in Todays : d > today /\ today' = d
    /\ reconcile_outcome' = "none"
    /\ reconcile_calls' = 0
    /\ UNCHANGED <<nadac_truth, absent>>
    /\ UNCHANGED <<fvars, lvars, cvars, mvars, ivars, svars>>

NextReconcile ==
    \/ ReconcilePending
    \/ LogNewPredictions
    \/ IngestPrices
    \/ AdvanceClock

SpecReconcile == InitReconcile /\ [][NextReconcile]_vars

----------------------------------------------------------------------------
\* The scorecard run (scorecard.py, __main__): initialize_registry, then the
\* ledger steps in program order, then registry.write_parquet.  Two runs may
\* be started, one after the other or overlapping.  The report that follows
\* the write reads the registry only and is left out.

Runs == {1, 2}
InputFiles == {"weekly_features", "nadac_history"}

\* The ledger steps of __main__ in reversed order.
MainStepsLogFirst == <<"log_new_predictions", "reconcile_pending">>
\* The ledger steps of __main__ in program order (lines 221 and 224).
MainSteps == <<"reconcile_pending", "log_new_predictions">>

\* A write of the registry after every ledger step.
SavesAfterEveryStep(n) == TRUE
\* registry.write_parquet(REGISTRY_PATH) follows the last ledger step only.
SavesAfter(n) == n = Len(MainSteps)

\* initialize_registry: the frame it returns ...
initialize_registry(file) == IF file.exists THEN file.rows ELSE <<>>
\* ... and the registry file it leaves: an absent file is created empty.
InitializedFile(file) == IF file.exists THEN file ELSE File(<<>>)

InitCycle ==
    /\ registry_file \in {NoFile} \cup
                         {File(rows) : rows \in PendingRegistries[MaxCycleRows]}
    /\ features_file
         \in FeatureFilesUpTo[MaxCycleRows - Len(registry_file.rows)]
    /\ nadac_truth \in TruthTables[MaxCycleRows - Len(registry_file.rows)
                                   - Cardinality(features_file)]
    /\ today \in Todays
    /\ absent \in SUBSET InputFiles
    /\ status = [r \in Runs |-> "idle"]
    /\ steps_done = [r \in Runs |-> 0]
    /\ run_registry = [r \in Runs |-> <<>>]
    /\ loaded = [r \in Runs |-> <<>>]
    /\ calls = [r \in Runs |-> <<>>]
    /\ mock_features = {}
    /\ enriched_df = {}
    /\ portfolio_df = <<>>
    /\ simulated_losses = <<>>
    /\ results = <<>>
    /\ forecast_outcome = "none"
    /\ ndc_entity_map = {}
    /\ market_stats = {}
    /\ competition_features = {}
    /\ registry = <<>>
    /\ prev_registry = <<>>
    /\ log_outcome = "none"
    /\ log_calls = 0
    /\ reconcile_outcome = "none"
    /\ reconcile_calls = 0
    /\ nadac = {}
    /\ events = {}
    /\ sentinel_risks = {}
    /\ events_normalized = <<>>
    /\ shortage_joined = {}
    /\ agg_risks = <<>>
    /\ master_table = {}
    /\ prev_table = {}
    /\ runs = 0

\* registry = initialize_registry()
InitializeRegistry(r) ==
    /\ status[r] = "idle"
    /\ status' = [status EXCEPT ![r] = "running"]
    /\ run_registry' = [run_registry EXCEPT ![r] = initialize_registry(registry_file)]
    /\ loaded' = [loaded EXCEPT ![r] = initialize_registry(registry_file)]
    /\ registry_file' = InitializedFile(registry_file)
    /\ UNCHANGED <<steps_done, calls>>
    /\ UNCHANGED <<fvars, lvars, rvars, mvars, ivars, svars>>

\* A run that starts only when no other run is under way.
InitializeRegistryExclusive(r) ==
    /\ \A q \in Runs \ {r} : status[q] # "running"
    /\ InitializeRegistry(r)

\* The ways the ledger operation of a step can end.
StepOutcomes(name, reg) ==
    IF name = "reconcile_pending"
    THEN reconcile_pending(reg, nadac_truth, today, absent)
    ELSE log_new_predictions(reg, features_file, absent)

\* registry = <operation>(registry) and, after the last step, the write.  An
\* exception is caught nowhere: it ends the run.
LedgerStep(r, name) ==
    /\ status[r] = "running"
    /\ steps_done[r] < Len(MainSteps)
    /\ MainSteps[steps_done[r] + 1] = name
    /\ calls' = [calls EXCEPT ![r] = Append(@, name)]
    /\ \E out \in StepOutcomes(name, run_registry[r]) :
         IF out.raised
         THEN /\ status' = [status EXCEPT ![r] = "failed"]
              /\ UNCHANGED <<run_registry, steps_done, registry_file>>
         ELSE /\ run_registry' = [run_registry EXCEPT ![r] = out.df]
              /\ steps_done' = [steps_done EXCEPT ![r] = @ + 1]
              /\ status' = [status EXCEPT ![r] =
                               IF steps_done[r] + 1 = Len(MainSteps)
                               THEN "done" ELSE "running"]
              /\ registry_file' = IF SavesAfter(steps_done[r] + 1)
                                  THEN File(out.df) ELSE registry_file
    /\ UNCHANGED loaded
    /\ UNCHANGED <<fvars, lvars, rvars, mvars, ivars, svars>>

RunReconcile(r) == LedgerStep(r, "reconcile_pending")

RunLog(r) == LedgerStep(r, "log_new_predictions")

\* Runs started at any time.
NextCycle ==
    \E r \in Runs :
        \/ InitializeRegistry(r)
        \/ RunReconcile(r)
        \/ RunLog(r)

SpecCycle == InitCycle /\ [][NextCycle]_vars

\* Runs started one at a time.
NextSerial ==
    \E r \in Runs :
        \/ InitializeRegistryExclusive(r)
        \/ RunReconcile(r)
        \/ RunLog(r)

SpecSerial == InitCycle /\ [][NextSerial]_vars

\* The scheduler starts the next cycle: a run that has ended, by an exception
\* or after its write, is started again from the top of __main__.
StartNextCycle(r) ==
    /\ status[r] \in {"failed", "done"}
    /\ status' = [status EXCEPT ![r] = "idle"]
    /\ steps_done' = [steps_done EXCEPT ![r] = 0]
    /\ run_registry' = [run_registry EXCEPT ![r] = <<>>]
    /\ loaded' = [loaded EXCEPT ![r] = <<>>]
    /\ calls' = [calls EXCEPT ![r] = <<>>]
    /\ UNCHANGED registry_file
    /\ UNCHANGED <<fvars, lvars, rvars, mvars, ivars, svars>>

\* Cycles without end, one at a time.
NextSchedule ==
    \E r \in Runs :
        \/ InitializeRegistryExclusive(r)
        \/ RunReconcile(r)
        \/ RunLog(r)
        \/ StartNextCycle(r)

\* Cycles scheduled fairly: a cycle that can start does start, and a run
\* that can take its next step takes it.
FairCycles ==
    \A r \in Runs :
        /\ WF_vars(InitializeRegistryExclusive(r))
        /\ WF_vars(RunReconcile(r))
        /\ WF_vars(RunLog(r))
        /\ WF_vars(StartNextCycle(r))

SpecSchedule == InitCycle /\ [][NextSchedule]_vars /\ FairCycles

----------------------------------------------------------------------------
\* generate_features, phase 1: market structure (signal_generator.py).
\*
\* An ndc11 of this part is a triple <<ingredient, manufacturer, k>>: the k-th
\* product line of a manufacturer for an ingredient.  The market under study
\* is one (date, ingredient); a few price rows lie in other markets.  The
\* entity map is the one build_entity_map derives from the price history: one
\* row per (ndc11, drug_description), so an ndc11 whose description changed
\* has two rows.  The shares are exact fractions where the code has floats.

MarketDates == {10, 17}
Ingredients == {"GABAPENTIN", "AMOXICILLIN"}
Manufacturers == {"M1", "M2", "M3"}
Focus == <<10, "GABAPENTIN">>
OtherCells ==
    {c \in MarketDates \X Ingredients \X Manufacturers : <<c[1], c[2]>> # Focus}

\* nadac_history.parquet: lines[m] product lines of manufacturer m priced in
\* the market under study, and one product line for each cell of others.
MarketNadac(lines, others) ==
    {[effective_date |-> Focus[1], ndc11 |-> <<Focus[2], mk[1], mk[2]>>]
        : mk \in {x \in Manufacturers \X (1..(MaxLines + 1)) :
                     x[2] <= lines[x[1]]}}
    \cup {[effective_date |-> c[1], ndc11 |-> <<c[2], c[3], 1>>] : c \in others}

\* build_entity_map: one row per (ndc11, drug_description) of the price
\* history; the ndc11 of twice have a second description.
EntityMapOf(nd, twice) ==
    {[ndc11 |-> n, drug_description |-> "D1", ingredient |-> n[1],
      manufacturer |-> n[2]] : n \in {r.ndc11 : r \in nd}}
    \cup {[ndc11 |-> n, drug_description |-> "D2", ingredient |-> n[1],
           manufacturer |-> n[2]] : n \in twice}

\* nadac.select(...).join(entity_map.select(...), on="ndc11", how="inner"):
\* one row per pair of a price row and a map row of its ndc11.  The select
\* drops the description, so the frame can hold equal rows; they are kept
\* apart here by the map row they come from.
market_spine(nd, emap) ==
    {p \in nd \X emap : p[1].ndc11 = p[2].ndc11}

\* group_by(["effective_date", "ingredient", "manufacturer"])
\*     .agg(pl.count("ndc11").alias("mfg_ndc_count"))
MfgNdcCounts(spine) ==
    {[effective_date |-> g[1], ingredient |-> g[2], manufacturer |-> g[3],
      mfg_ndc_count |->
          Cardinality({p \in spine : /\ p[1].effective_date = g[1]
                                     /\ p[2].ingredient = g[2]
                                     /\ p[2].manufacturer = g[3]})]
        : g \in {<<p[1].effective_date, p[2].ingredient, p[2].manufacturer>>
                    : p \in spine}}

RECURSIVE SumCount(_)
\* pl.col("mfg_ndc_count").sum() over the rows of a window.
SumCount(rows) ==
    IF rows = {} THEN 0
    ELSE LET x == CHOOSE y \in rows : TRUE
         IN x.mfg_ndc_count + SumCount(rows \ {x})

\* The sum over the whole date, whatever the ingredient.
TotalNdcsOfDate(counted, d, i) ==
    SumCount({x \in counted : x.effective_date = d})
\* mfg_ndc_count.sum().over(["effective_date", "ingredient"])
TotalIngredientNdcs(counted, d, i) ==
    SumCount({x \in counted : x.effective_date = d /\ x.ingredient = i})

\* market_stats: the counts with total_ingredient_ndcs and market_share.
MarketStats(spine) ==
    LET counted == MfgNdcCounts(spine)
    IN {LET total == TotalIngredientNdcs(counted, c.effective_date,
                                         c.ingredient)
        IN [effective_date |-> c.effective_date, ingredient |-> c.ingredient,
            manufacturer |-> c.manufacturer,
            mfg_ndc_count |-> c.mfg_ndc_count,
            total_ingredient_ndcs |-> total,
            market_share |-> Rat(c.mfg_ndc_count, total)] : c \in counted}

RECURSIVE SumSquaredShares(_)
\* (pl.col("market_share") ** 2).sum()
SumSquaredShares(rows) ==
    IF rows = {} THEN Rat(0, 1)
    ELSE LET x == CHOOSE y \in rows : TRUE
         IN RatAdd(RatSquare(x.market_share), SumSquaredShares(rows \ {x}))

\* The rows of market_stats of one (date, ingredient).
StatsGroup(stats, d, i) ==
    {x \in stats : x.effective_date = d /\ x.ingredient = i}

\* market_stats.group_by(["effective_date", "ingredient"]).agg(market_hhi,
\* num_competitors)
CompetitionFeatures(stats) ==
    {[effective_date |-> g[1], ingredient |-> g[2],
      market_hhi |-> SumSquaredShares(StatsGroup(stats, g[1], g[2])),
      num_competitors |->
          Cardinality({x.manufacturer : x \in StatsGroup(stats, g[1], g[2])})]
        : g \in {<<x.effective_date, x.ingredient>> : x \in stats}}

InitMarket ==
    /\ \E lines \in [Manufacturers -> 0..MaxLines] :
         \E others \in SubsetsUpTo(OtherCells, MaxOtherRows) :
           \E twice \in SubsetsUpTo({<<Focus[2], m, 1>>
                                       : m \in {x \in Manufacturers :
                                                   lines[x] >= 1}}, 1) :
             /\ nadac = MarketNadac(lines, others)
             /\ ndc_entity_map = EntityMapOf(nadac, twice)
    /\ market_stats = {}
    /\ competition_features = {}
    /\ events = {}
    /\ sentinel_risks = {}
    /\ events_normalized = <<>>
    /\ shortage_joined = {}
    /\ agg_risks = <<>>
    /\ master_table = {}
    /\ prev_table = {}
    /\ runs = 0
    /\ features_file = {}
    /\ registry = <<>>
    /\ prev_registry = <<>>
    /\ log_outcome = "none"
    /\ log_calls = 0
    /\ nadac_truth = {}
    /\ today = 0
    /\ absent = {}
    /\ reconcile_outcome = "none"
    /\ reconcile_calls = 0
    /\ registry_file = NoFile
    /\ status = <<>>
    /\ steps_done = <<>>
    /\ run_registry = <<>>
    /\ loaded = <<>>
    /\ calls = <<>>
    /\ mock_features = {}
    /\ enriched_df = {}
    /\ portfolio_df = <<>>
    /\ simulated_losses = <<>>
    /\ results = <<>>
    /\ forecast_outcome = "none"

\* Phase 1 of generate_features over the input files.
ComputeMarketStructure ==
    /\ market_stats' = MarketStats(market_spine(nadac, ndc_entity_map))
    /\ competition_features' = CompetitionFeatures(market_stats')
    /\ UNCHANGED ndc_entity_map
    /\ UNCHANGED <<fvars, lvars, rvars, cvars, ivars, svars>>

NextMarket == ComputeMarketStructure

SpecMarket == InitMarket /\ [][NextMarket]_vars

----------------------------------------------------------------------------
\* The feature pipeline as a state machine.

InitFeatures ==
    /\ nadac \in SpineTables
    /\ events \in EventTables[MaxRows - Cardinality(nadac)]
    /\ sentinel_risks
         \in RiskTables[MaxRows - Cardinality(nadac) - Cardinality(events)]
    /\ events_normalized = <<>>
    /\ shortage_joined = {}
    /\ agg_risks = <<>>
    /\ master_table = {}
    /\ prev_table = {}
    /\ runs = 0
    /\ features_file = {}
    /\ registry = <<>>
    /\ prev_registry = <<>>
    /\ log_outcome = "none"
    /\ log_calls = 0
    /\ nadac_truth = {}
    /\ today = 0
    /\ absent = {}
    /\ reconcile_outcome = "none"
    /\ reconcile_calls = 0
    /\ registry_file = NoFile
    /\ status = <<>>
    /\ steps_done = <<>>
    /\ run_registry = <<>>
    /\ loaded = <<>>
    /\ calls = <<>>
    /\ mock_features = {}
    /\ enriched_df = {}
    /\ portfolio_df = <<>>
    /\ simulated_losses = <<>>
    /\ results = <<>>
    /\ forecast_outcome = "none"
    /\ ndc_entity_map = EntityMapRows
    /\ market_stats = {}
    /\ competition_features = {}

\* The files generate_features cannot run without.
FeatureInputs == {"nadac_history", "shortage_events", "ndc_entity_map"}

\* One run of generate_features over the input files.  A run that cannot
\* load one of its three inputs returns before it computes or writes anything.
GenerateFeatures ==
    /\ runs < MaxRuns
    /\ IF FeatureInputs \cap absent # {}
       THEN UNCHANGED <<events_normalized, shortage_joined, agg_risks,
                        master_table, market_stats, competition_features>>
       ELSE \E evs \in EventsNormalizedOutcomes(events),
               ar \in AggRisksOutcomes(sentinel_risks) :
              LET stats == MarketStats(market_spine(nadac, ndc_entity_map))
                  comp == CompetitionFeatures(stats)
                  joined == ShortageJoin(spine_enhanced(nadac, ndc_entity_map),
                                         evs)
                  merged ==
                      MergeShortage(
                          JoinCompetition(
                              JoinEntityMap(price_features(nadac),
                                            ndc_entity_map), comp),
                          shortage_signals(joined))
              IN /\ market_stats' = stats
                 /\ competition_features' = comp
                 /\ events_normalized' = evs
                 /\ shortage_joined' = joined
                 /\ agg_risks' = IF "sentinel_risks" \in absent
                                 THEN agg_risks ELSE ar
                 /\ master_table' =
                        FillDefaults(integrate_sentinel_risk(merged, ar,
                                                             absent))
    /\ prev_table' = master_table
    /\ runs' = runs + 1
    /\ UNCHANGED <<nadac, events, sentinel_risks, ndc_entity_map>>
    /\ UNCHANGED <<lvars, rvars, cvars, ivars, svars>>

NextFeatures == GenerateFeatures

SpecFeatures == InitFeatures /\ [][NextFeatures]_vars

----------------------------------------------------------------------------
\* generate_features over long price series.
\*
\* The entity N1 has n weekly observations, priced 10 but for a few priced 12,
\* with or without a gap of ten weeks in the calendar; the entity N2 may have an
\* observation priced 50 on a day in between.

GapsAfter == {0, 2}
OtherObs == 0..1

ObsDate(i, g) == 7 * i + (IF g > 0 /\ i > g THEN 70 ELSE 0)

DynamicsNadac(n, high, g, m) ==
    {[effective_date |-> ObsDate(i, g), ndc11 |-> "N1",
      price_per_unit |-> IF i \in high THEN 12 ELSE 10] : i \in 1..n}
    \cup {[effective_date |-> 14 * k + 1, ndc11 |-> "N2",
           price_per_unit |-> 50] : k \in 1..m}

InitDynamics ==
    /\ \E n \in 1..MaxObs, g \in GapsAfter, m \in OtherObs :
         \E high \in SubsetsUpTo(1..n, MaxHigh) :
            nadac = DynamicsNadac(n, high, g, m)
    /\ ndc_entity_map = EntityMapRows
    /\ events = {}
    /\ sentinel_risks = {}
    /\ absent = {}
    /\ events_normalized = <<>>
    /\ shortage_joined = {}
    /\ agg_risks = <<>>
    /\ master_table = {}
    /\ prev_table = {}
    /\ runs = 0
    /\ market_stats = {}
    /\ competition_features = {}
    /\ features_file = {}
    /\ registry = <<>>
    /\ prev_registry = <<>>
    /\ log_outcome = "none"
    /\ log_calls = 0
    /\ nadac_truth = {}
    /\ today = 0
    /\ reconcile_outcome = "none"
    /\ reconcile_calls = 0
    /\ registry_file = NoFile
    /\ status = <<>>
    /\ steps_done = <<>>
    /\ run_registry = <<>>
    /\ loaded = <<>>
    /\ calls = <<>>
    /\ mock_features = {}
    /\ enriched_df = {}
    /\ portfolio_df = <<>>
    /\ simulated_losses = <<>>
    /\ results = <<>>
    /\ forecast_outcome = "none"

SpecDynamics == InitDynamics /\ [][NextFeatures]_vars

----------------------------------------------------------------------------
\* generate_features over entity maps of every shape.
\*
\* The map has no row, one row or two rows (two drug descriptions) for an
\* ndc11, and at most one of the four input files does not exist.

MapRowCounts == 0..2

EntityMapWith(c) ==
    {e \in EntityMapRows : c[e.ndc11] >= 1}
    \cup {[e EXCEPT !.drug_description = "D2"]
             : e \in {x \in EntityMapRows : c[x.ndc11] = 2}}

ComposeInputs == FeatureInputs \cup {"sentinel_risks"}

InitCompose ==
    /\ absent \in SubsetsUpTo(ComposeInputs, 1)
    /\ nadac \in IF "nadac_history" \in absent THEN {{}}
                  ELSE SubsetsUpTo(SpineRows, MaxComposeRows) \ {{}}
    /\ events \in IF "shortage_events" \in absent THEN {{}}
                   ELSE SubsetsUpTo(EventRows,
                                    MaxComposeRows - Cardinality(nadac))
    /\ sentinel_risks
         \in IF "sentinel_risks" \in absent THEN {{}}
             ELSE SubsetsUpTo(RiskRows, MaxComposeRows - Cardinality(nadac)
                                           - Cardinality(events))
    /\ ndc_entity_map \in IF "ndc_entity_map" \in absent THEN {{}}
                           ELSE {EntityMapWith(c) : c \in [NDCs -> MapRowCounts]}
    /\ events_normalized = <<>>
    /\ shortage_joined = {}
    /\ agg_risks = <<>>
    /\ master_table = {}
    /\ prev_table = {}
    /\ runs = 0
    /\ market_stats = {}
    /\ competition_features = {}
    /\ features_file = {}
    /\ registry = <<>>
    /\ prev_registry = <<>>
    /\ log_outcome = "none"
    /\ log_calls = 0
    /\ nadac_truth = {}
    /\ today = 0
    /\ reconcile_outcome = "none"
    /\ reconcile_calls = 0
    /\ registry_file = NoFile
    /\ status = <<>>
    /\ steps_done = <<>>
    /\ run_registry = <<>>
    /\ loaded = <<>>
    /\ calls = <<>>
    /\ mock_features = {}
    /\ enriched_df = {}
    /\ portfolio_df = <<>>
    /\ simulated_losses = <<>>
    /\ results = <<>>
    /\ forecast_outcome = "none"

SpecCompose == InitCompose /\ [][NextFeatures]_vars

----------------------------------------------------------------------------
\* integrate_sentinel_risk called on a frame of the caller's making, as
\* tests/test_integration.py does: rows with effective_date, manufacturer and
\* price, or rows without the manufacturer column.

MockRows == [effective_date : SpineDates, manufacturer : RiskManufacturers,
             price : {100}]
BareRows == [effective_date : SpineDates, price : {100, 50}]

MockFrames ==
    (SubsetsUpTo(MockRows, MaxMockRows - 1)
        \cup SubsetsUpTo(BareRows, MaxMockRows - 1)) \ {{}}

InitIntegrate ==
    /\ mock_features \in MockFrames
    /\ absent \in SUBSET {"sentinel_risks"}
    /\ sentinel_risks
         \in IF "sentinel_risks" \in absent THEN {{}}
             ELSE SubsetsUpTo(RiskRows,
                              MaxMockRows - Cardinality(mock_features))
    /\ enriched_df = {}
    /\ portfolio_df = <<>>
    /\ simulated_losses = <<>>
    /\ results = <<>>
    /\ forecast_outcome = "none"
    /\ agg_risks = <<>>
    /\ nadac = {}
    /\ events = {}
    /\ ndc_entity_map = {}
    /\ events_normalized = <<>>
    /\ shortage_joined = {}
    /\ master_table = {}
    /\ prev_table = {}
    /\ runs = 0
    /\ market_stats = {}
    /\ competition_features = {}
    /\ features_file = {}
    /\ registry = <<>>
    /\ prev_registry = <<>>
    /\ log_outcome = "none"
    /\ log_calls = 0
    /\ nadac_truth = {}
    /\ today = 0
    /\ reconcile_outcome = "none"
    /\ reconcile_calls = 0
    /\ registry_file = NoFile
    /\ status = <<>>
    /\ steps_done = <<>>
    /\ run_registry = <<>>
    /\ loaded = <<>>
    /\ calls = <<>>

\* enriched_df = integrate_sentinel_risk(mock_features)
IntegrateSentinelRiskCall ==
    /\ \E ar \in AggRisksOutcomes(sentinel_risks) :
         /\ enriched_df' = integrate_sentinel_risk(mock_features, ar, absent)
         /\ agg_risks' = IF \/ "sentinel_risks" \in absent
                            \/ LacksManufacturer(mock_features)
                         THEN agg_risks ELSE ar
    /\ UNCHANGED mock_features
    /\ UNCHANGED <<nadac, events, sentinel_risks, events_normalized,
                   shortage_joined, master_table, prev_table, runs>>
    /\ UNCHANGED <<lvars, rvars, cvars, mvars, svars>>

NextIntegrate == IntegrateSentinelRiskCall

SpecIntegrate == InitIntegrate /\ [][NextIntegrate]_vars

----------------------------------------------------------------------------
\* RiskSimulator.forecast_inflation (simulation/monte_carlo.py).
\*
\* Amounts are whole numbers and the results exact fractions where the code
\* has floats; a draw of np.random.random is one of a few fractions of [0, 1).

\* spike_probability_scale: float = 0.1
spike_probability_scale == Rat(1, 10)

Draws == {Rat(0, 1), Rat(1, 2), Rat(3, 4)}
Spends == {0, 100, 200}
CurrentPrices == {0, 10}
RiskScores == {-1, 0, 5, 10, 12}
Forecasts == {8, 10, 15}

Drugs == [current_spend : Spends, current_price : CurrentPrices,
          manufacturer_risk_score : RiskScores, forecast_p90 : Forecasts]

\* A frame without the forecast_p90 column.
BarePortfolio ==
    <<[drug_name |-> 1, current_spend |-> 100, current_price |-> 10,
       manufacturer_risk_score |-> 5]>>

\* Two rows of the portfolio of tests/test_monte_carlo.py, GuaranteedMiss and
\* CoinFlip, with the spend in hundreds.
MockPortfolio ==
    <<[drug_name |-> 1, current_spend |-> 100, current_price |-> 10,
       manufacturer_risk_score |-> 10, forecast_p90 |-> 8],
      [drug_name |-> 2, current_spend |-> 100, current_price |-> 10,
       manufacturer_risk_score |-> 5, forecast_p90 |-> 15]>>

\* The portfolios of one drug, and the two above.
Portfolios ==
    {<<d @@ [drug_name |-> 1]>> : d \in Drugs}
    \cup {BarePortfolio, MockPortfolio}

required_cols == {"drug_name", "current_spend", "current_price",
                  "manufacturer_risk_score", "forecast_p90"}

\* min(drug['manufacturer_risk_score'] * self.scale, 1.0)
ProbSpike(drug) ==
    RatMin(RatMul(Rat(drug.manufacturer_risk_score, 1),
                  spike_probability_scale), Rat(1, 1))

\* current_spend / current_price, 0 when the price is not positive
UnitsPurchased(drug) ==
    IF drug.current_price > 0
    THEN Rat(drug.current_spend, drug.current_price)
    ELSE Rat(0, 1)

\* max(0, drug['forecast_p90'] - drug['current_price'])
ProjectedUnitLoss(drug) ==
    IF drug.forecast_p90 - drug.current_price > 0
    THEN drug.forecast_p90 - drug.current_price ELSE 0

TotalLossOnShock(drug) ==
    RatMul(Rat(ProjectedUnitLoss(drug), 1), UnitsPurchased(drug))

\* Variant of HasSpike: rng <= prob_spike.
HasSpikeInclusive(draw, prob) == ~RatLess(prob, draw)
\* rng < prob_spike
HasSpike(draw, prob) == RatLess(draw, prob)

\* np.where(has_spike, total_loss_on_shock, 0.0)
SimulatedLosses(drug, rng) ==
    [k \in DOMAIN rng |->
        IF HasSpike(rng[k], ProbSpike(drug)) THEN TotalLossOnShock(drug)
        ELSE Rat(0, 1)]

RECURSIVE RatSum(_)
RatSum(w) == IF w = <<>> THEN Rat(0, 1) ELSE RatAdd(w[1], RatSum(Tail(w)))

\* np.mean(simulated_losses)
MeanLoss(losses) == RatDiv(RatSum(losses), Rat(Len(losses), 1))

\* The losses in increasing order: each is 0 or the one loss on shock, which
\* is not negative.
SortedLosses(losses) ==
    LET zeros == Cardinality({k \in DOMAIN losses : losses[k] = Rat(0, 1)})
        top == IF zeros = Len(losses) THEN Rat(0, 1)
               ELSE losses[CHOOSE k \in DOMAIN losses : losses[k] # Rat(0, 1)]
    IN [k \in DOMAIN losses |-> IF k <= zeros THEN Rat(0, 1) ELSE top]

\* np.percentile(simulated_losses, 95): linear interpolation at the position
\* 0.95 * (n - 1) of the sorted losses
Percentile95(losses) ==
    LET a == SortedLosses(losses)
        pos == 19 * (Len(a) - 1)
        lo == pos \div 20 + 1
        frac == Rat(pos % 20, 20)
    IN IF lo >= Len(a) THEN a[Len(a)]
       ELSE RatAdd(a[lo], RatMul(frac, RatSub(a[lo + 1], a[lo])))

\* The row of the returned frame of one drug.
ResultRow(drug, losses) ==
    [drug_name |-> drug.drug_name,
     current_spend |-> drug.current_spend,
     manufacturer_risk_score |-> drug.manufacturer_risk_score,
     forecast_p90 |-> drug.forecast_p90,
     mean_loss |-> MeanLoss(losses),
     worst_case_loss |-> Percentile95(losses),
     prob_spike |-> ProbSpike(drug)]

InitSimulation ==
    /\ portfolio_df \in Portfolios
    /\ simulated_losses = <<>>
    /\ results = <<>>
    /\ forecast_outcome = "none"
    /\ nadac = {}
    /\ events = {}
    /\ sentinel_risks = {}
    /\ ndc_entity_map = {}
    /\ absent = {}
    /\ events_normalized = <<>>
    /\ shortage_joined = {}
    /\ agg_risks = <<>>
    /\ master_table = {}
    /\ prev_table = {}
    /\ runs = 0
    /\ market_stats = {}
    /\ competition_features = {}
    /\ features_file = {}
    /\ registry = <<>>
    /\ prev_registry = <<>>
    /\ log_outcome = "none"
    /\ log_calls = 0
    /\ nadac_truth = {}
    /\ today = 0
    /\ reconcile_outcome = "none"
    /\ reconcile_calls = 0
    /\ registry_file = NoFile
    /\ status = <<>>
    /\ steps_done = <<>>
    /\ run_registry = <<>>
    /\ loaded = <<>>
    /\ calls = <<>>
    /\ mock_features = {}
    /\ enriched_df = {}

\* results = simulator.forecast_inflation(portfolio_df), with fresh draws for
\* every drug.
ForecastInflation ==
    /\ IF \E i \in DOMAIN portfolio_df :
             ~(required_cols \subseteq DOMAIN portfolio_df[i])
       THEN /\ forecast_outcome' = "raised"
            /\ UNCHANGED <<simulated_losses, results>>
       ELSE \E rng \in [DOMAIN portfolio_df -> [1..NumSimulations -> Draws]] :
              /\ simulated_losses' =
                     [i \in DOMAIN portfolio_df |->
                         SimulatedLosses(portfolio_df[i], rng[i])]
              /\ results' =
                     [i \in DOMAIN portfolio_df |->
                         ResultRow(portfolio_df[i], simulated_losses'[i])]
              /\ forecast_outcome' = "returned"
    /\ UNCHANGED portfolio_df
    /\ UNCHANGED <<fvars, lvars, rvars, cvars, mvars, ivars>>

NextSimulation == ForecastInflation

SpecSimulation == InitSimulation /\ [][NextSimulation]_vars

----------------------------------------------------------------------------
\* Properties of the event joins.

\* The shortage events of join key k dated at or before d.
KeyEvents(k, d) ==
    {e \in events : normalize_text(e.generic_name) = k /\ e.event_date <= d}

\* The risk events of manufacturer m dated at or before d.
MfrRisks(m, d) ==
    {e \in sentinel_risks : e.manufacturer = m /\ e.event_date <= d}

LatestDate(S) == Max({e.event_date : e \in S})

\* C1: no look-ahead.  In every row of the shortage join and in every row of
\* the risk join the matched event is dated at or before the row's
\* effective_date, whatever the event tables hold.
C1_NoLookAhead ==
    /\ \A j \in shortage_joined :
         j.event_date # Null => j.event_date[1] <= j.effective_date
    /\ \A r \in master_table :
         r.event_date # Null => r.event_date[1] <= r.effective_date

\* A run in which a row was matched to a past shortage event although the
\* events file also holds a later event of its key, and in which the risk file
\* holds an event of the row's manufacturer dated after the row.
C1_Witness ==
    /\ runs >= 1
    /\ \E j \in shortage_joined :
         /\ j.event_date # Null
         /\ \E e \in events : /\ normalize_text(e.generic_name) = j.join_key
                              /\ e.event_date > j.effective_date
    /\ \E r \in master_table :
         \E e \in sentinel_risks : /\ e.manufacturer = r.manufacturer
                                   /\ e.event_date > r.effective_date

\* C2 as stated: in both joins a row with an event of its key dated at or
\* before it carries the greatest such event_date, and a null match otherwise.
C2_AsStated ==
    /\ \A j \in shortage_joined :
         LET c == KeyEvents(j.join_key, j.effective_date)
         IN j.event_date = IF c = {} THEN Null ELSE Some(LatestDate(c))
    /\ \A r \in master_table :
         LET c == MfrRisks(r.manufacturer, r.effective_date)
         IN r.event_date = IF c = {} THEN Null ELSE Some(LatestDate(c))

\* C2 (amended): backward as-of matching.  Every spine row is kept.  A row of
\* the shortage join carries the greatest event_date <= d of its join key and
\* the type of an event of that key and date, or nulls when the key has no
\* event dated <= d.  A row of the risk join carries the greatest event_date
\* <= d of its manufacturer if that date is at most 90 days before d, and a
\* null match otherwise.
C2_BackwardAsof ==
    /\ runs >= 1 =>
         /\ {<<j.effective_date, j.ndc11>> : j \in shortage_joined}
              = {<<n.effective_date, n.ndc11>> : n \in nadac}
         /\ {<<r.effective_date, r.ndc11>> : r \in master_table}
              = {<<n.effective_date, n.ndc11>> : n \in nadac}
    /\ \A j \in shortage_joined :
         LET c == KeyEvents(j.join_key, j.effective_date)
         IN IF c = {}
            THEN j.event_date = Null /\ j.event_type = Null
            ELSE /\ j.event_date = Some(LatestDate(c))
                 /\ \E e \in c : /\ e.event_date = LatestDate(c)
                                 /\ j.event_type = Some(e.event_type)
    /\ \A r \in master_table :
         LET c == MfrRisks(r.manufacturer, r.effective_date)
         IN r.event_date =
              IF c # {} /\ r.effective_date - LatestDate(c) <= ToleranceDays
              THEN Some(LatestDate(c)) ELSE Null

\* A run in which a shortage row had two candidate events of different dates
\* and carries the later one, while a risk row carries a match as well.
C2_Witness ==
    /\ \E j \in shortage_joined :
         \E e1, e2 \in KeyEvents(j.join_key, j.effective_date) :
            /\ e1.event_date < e2.event_date
            /\ j.event_date = Some(e2.event_date)
    /\ \E r \in master_table : r.event_date # Null

C4_SharedNormalization ==
    /\ \A j \in shortage_joined :
         (\E e \in events :
             /\ normalize_text(e.generic_name)
                  = normalize_text(entity_map[j.ndc11].ingredient)
             /\ e.event_date <= j.effective_date)
         => j.event_date # Null
    /\ \A r \in master_table :
         (\E e \in sentinel_risks :
             /\ normalize_text(e.manufacturer) = normalize_text(r.manufacturer)
             /\ e.event_date <= r.effective_date
             /\ r.effective_date - e.event_date <= ToleranceDays)
         => r.event_date # Null

\* C5 as stated: both event frames handed to join_asof hold at most one row
\* per (join key, event_date).
C5_AggregatedBeforeMatch ==
    /\ \A i, k \in DOMAIN events_normalized :
         (/\ events_normalized[i].join_key = events_normalized[k].join_key
          /\ events_normalized[i].event_date = events_normalized[k].event_date)
         => i = k
    /\ \A i, k \in DOMAIN agg_risks :
         (/\ agg_risks[i].manufacturer = agg_risks[k].manufacturer
          /\ agg_risks[i].event_date = agg_risks[k].event_date)
         => i = k

\* The columns of the feature table that the event joins produce.
JoinColumns(table) ==
    {[effective_date |-> r.effective_date, ndc11 |-> r.ndc11,
      is_shortage |-> r.is_shortage,
      weeks_in_shortage |-> r.weeks_in_shortage,
      manufacturer_risk_score |-> r.manufacturer_risk_score] : r \in table}

\* C6 as stated: two runs over the same input rows give every (date, entity)
\* row the same is_shortage, weeks_in_shortage and manufacturer_risk_score.
C6_JoinDeterminism ==
    runs >= 2 => JoinColumns(prev_table) = JoinColumns(master_table)

----------------------------------------------------------------------------
\* Properties of the prediction ledger.

IsPrefix(a, b) == Len(a) <= Len(b) /\ SubSeq(b, 1, Len(a)) = a

\* The rows the last log call put after the rows it was given.
Appended == {registry[i] : i \in (Len(prev_registry) + 1)..Len(registry)}

\* C7 as stated: a log call that follows a log call on the same feature table
\* yields a registry, the one the first call yielded; it appends nothing.
C7_IdempotentLogging ==
    log_calls >= 2 => log_outcome = "returned" /\ registry = prev_registry

\* C8 as stated: no two rows of the registry share a prediction_id, and once
\* the latest slice has been logged, one time or several, the registry holds
\* exactly one row for each of its (date, entity) combinations.
C8_OneRowPerDateEntity ==
    /\ \A i, k \in DOMAIN registry :
         registry[i].prediction_id = registry[k].prediction_id => i = k
    /\ log_calls >= 1 =>
         \A f \in LatestSlice(features_file) :
            Cardinality({i \in DOMAIN registry :
                            /\ registry[i].prediction_date = f.effective_date
                            /\ registry[i].ndc11 = f.ndc11}) = 1

\* C9 as stated: log returns a registry of which the registry it was given is
\* a prefix, so no row is deleted or changed.
C9_LogAdditive ==
    log_calls >= 1 =>
        log_outcome = "returned" /\ IsPrefix(prev_registry, registry)

\* C10 as stated: log appends the rows of the latest slice that the registry
\* lacks, and every row it appends is dated the maximum effective_date of the
\* feature table, is PENDING, has no actual_price and no outcome, and has
\* target_date = prediction_date + 28 days.
C10_LoggedRowContent ==
    log_calls >= 1 =>
        /\ \A f \in LatestSlice(features_file) :
             (\A i \in DOMAIN prev_registry :
                 prev_registry[i].prediction_id
                     # PredictionId(f.effective_date, f.ndc11))
             => \E a \in Appended : /\ a.prediction_date = f.effective_date
                                    /\ a.ndc11 = f.ndc11
        /\ \A a \in Appended :
             /\ \E f \in LatestSlice(features_file) :
                   /\ a.prediction_date = f.effective_date
                   /\ a.ndc11 = f.ndc11
                   /\ a.start_price = f.price_per_unit
             /\ a.status = "PENDING"
             /\ a.actual_price = Null
             /\ a.price_change_pct = Null
             /\ a.target_date = a.prediction_date + LookaheadDays

----------------------------------------------------------------------------
\* Properties of reconcile_pending.

\* The price rows of entity n dated at or before d.
TruthAtOrBefore(n, d) ==
    {t \in nadac_truth : t.ndc11 = n /\ t.effective_date <= d}

\* The last step was a reconcile_pending call that returned.
Reconciled == reconcile_calls >= 1 /\ reconcile_outcome = "returned"

\* The positions of the rows the last reconcile call resolved.
NewlyResolved ==
    {i \in DOMAIN registry \cap DOMAIN prev_registry :
        prev_registry[i].status = "PENDING" /\ registry[i].status = "RESOLVED"}

\* q is the fraction n / d.
IsFraction(q, n, d) == q[2] > 0 /\ q[1] * d = n * q[2]

\* C11: a row that a reconcile call resolves gets as actual_price the price of
\* the same entity with the greatest effective_date at or before the row's
\* target_date (never a later one), as outcome (actual_price - start_price) /
\* start_price, and status RESOLVED; a start price of 100 and a price of 115 on
\* the target date give the outcome 0.15.
C11_ReconcileOutcome ==
    Reconciled =>
        \A i \in NewlyResolved :
            LET row == registry[i]
                known == TruthAtOrBefore(row.ndc11, row.target_date)
            IN \E t \in known :
                 /\ \A u \in known : u.effective_date <= t.effective_date
                 /\ row.actual_price = Some(t.price_per_unit)
                 /\ row.price_change_pct # Null
                 /\ IsFraction(row.price_change_pct[1],
                               t.price_per_unit - row.start_price,
                               row.start_price)
                 /\ (row.start_price = 100 /\ t.price_per_unit = 115)
                        => row.price_change_pct = Some(<<3, 20>>)

\* A call resolved a row that started at 100 with the price 115 published on
\* the target date, while a later price of the same entity was on file.
C11_Witness ==
    /\ Reconciled
    /\ \E i \in NewlyResolved :
         /\ registry[i].start_price = 100
         /\ registry[i].actual_price = Some(115)
         /\ registry[i].price_change_pct = Some(<<3, 20>>)
         /\ \E t, u \in nadac_truth :
              /\ t.ndc11 = registry[i].ndc11 /\ u.ndc11 = registry[i].ndc11
              /\ t.effective_date = registry[i].target_date
              /\ u.effective_date > registry[i].target_date
              /\ u.price_per_unit = 100

\* The prediction ids of a registry, in row order.
Ids(reg) == [i \in DOMAIN reg |-> reg[i].prediction_id]

\* C12: a reconcile call changes only rows that were PENDING, had a
\* target_date at or before the current date, and have a price of their
\* entity on file at or before the target_date; every other row (RESOLVED,
\* not yet due, or without such a price) and the set of rows stay as they were.
C12_ReconcileFrame ==
    Reconciled =>
        /\ Ids(registry) = Ids(prev_registry)
        /\ \A i \in DOMAIN registry :
             registry[i] # prev_registry[i] =>
                 /\ prev_registry[i].status = "PENDING"
                 /\ prev_registry[i].target_date <= today
                 /\ TruthAtOrBefore(prev_registry[i].ndc11,
                                    prev_registry[i].target_date) # {}

\* A call resolved one row and left alone a PENDING row that is not due yet
\* although a price of its entity is on file.
C12_Witness ==
    /\ Reconciled
    /\ NewlyResolved # {}
    /\ \E i \in DOMAIN registry :
         /\ registry[i] = prev_registry[i]
         /\ registry[i].status = "PENDING"
         /\ registry[i].target_date > today
         /\ TruthAtOrBefore(registry[i].ndc11, registry[i].target_date) # {}

\* C13: a second reconcile call directly after a first one, with the same
\* price history and the same current date, returns the registry the first
\* call returned; rows that are RESOLVED keep their values.
C13_IdempotentReconcile ==
    (reconcile_calls >= 2 /\ reconcile_outcome = "returned")
        => registry = prev_registry

\* A second successive call ran on a registry that holds a resolved row and
\* a due row that is still PENDING for want of a price.
C13_Witness ==
    /\ reconcile_calls = 2
    /\ reconcile_outcome = "returned"
    /\ \E i \in DOMAIN registry : registry[i].status = "RESOLVED"
    /\ \E i \in DOMAIN registry :
         registry[i].status = "PENDING" /\ registry[i].target_date <= today

\* C14: along any sequence of log and reconcile calls a prediction enters the
\* registry PENDING, stays in it, moves to RESOLVED at most once and only in
\* a step at which its target_date has passed and a price of its entity is on
\* file, and from then on keeps its status, actual_price and outcome whatever
\* happens to the price history.
C14_Lifecycle ==
    [][/\ \A i \in DOMAIN registry' \ DOMAIN registry :
            registry'[i].status = "PENDING"
       /\ \A i \in DOMAIN registry :
            /\ i \in DOMAIN registry'
            /\ registry'[i].prediction_id = registry[i].prediction_id
            /\ registry[i].status = "RESOLVED" => registry'[i] = registry[i]
            /\ registry'[i].status = "PENDING" => registry'[i] = registry[i]
            /\ (registry[i].status = "PENDING"
                    /\ registry'[i].status = "RESOLVED") =>
                   /\ registry[i].target_date <= today
                   /\ TruthAtOrBefore(registry[i].ndc11,
                                      registry[i].target_date) # {}
                   /\ registry'[i].actual_price # Null
                   /\ registry'[i].price_change_pct # Null]_vars

\* A reconcile call ran over a row resolved at 115 after the price on its
\* target date had been restated to 100, and the row kept its values.
C14_Witness ==
    /\ Reconciled
    /\ \E i \in DOMAIN registry :
         /\ registry[i].status = "RESOLVED"
         /\ registry[i].actual_price = Some(115)
         /\ \E t \in nadac_truth :
              /\ t.ndc11 = registry[i].ndc11
              /\ t.effective_date = registry[i].target_date
              /\ t.price_per_unit = 100

----------------------------------------------------------------------------
\* Properties of the scorecard run.

ProgramOrder == <<"reconcile_pending", "log_new_predictions">>

\* The rows a run appended to the registry it loaded.
AppendedByRun(r) ==
    {run_registry[r][i] : i \in DOMAIN run_registry[r] \ DOMAIN loaded[r]}

Reads(name) ==
    IF name = "reconcile_pending" THEN {"nadac_history"}
    ELSE {"weekly_features", "nadac_history"}

\* C17: a ledger operation called while one of its input files is missing
\* does not fail: it returns the registry it was given, unmodified, and the
\* run goes on.
C17_MissingInputRecoverable ==
    [][\A r \in Runs :
          (calls'[r] # calls[r]
              /\ Reads(calls'[r][Len(calls'[r])]) \cap absent # {}) =>
              /\ status'[r] # "failed"
              /\ run_registry'[r] = run_registry[r]]_vars

\* The rows a run that reached the write had appended or resolved.
WrittenBy(r) ==
    IF status[r] # "done" THEN {}
    ELSE {run_registry[r][i] : i \in {j \in DOMAIN run_registry[r] :
              j \notin DOMAIN loaded[r] \/ run_registry[r][j] # loaded[r][j]}}

\* The registry file lacks a row that a run had written.
LostUpdate ==
    \E r \in Runs : \E row \in WrittenBy(r) :
        \A i \in DOMAIN registry_file.rows : registry_file.rows[i] # row

\* No update is lost, whether the runs overlap or not: no run reaches the
\* write.
NoLostUpdate == ~LostUpdate

----------------------------------------------------------------------------
\* Properties of the market structure.

\* The entities (ndc11) of ingredient i that manufacturer m has priced on d.
EntitiesSold(d, i, m) ==
    {r.ndc11 : r \in {x \in nadac :
        /\ x.effective_date = d
        /\ \E e \in ndc_entity_map :
             e.ndc11 = x.ndc11 /\ e.ingredient = i /\ e.manufacturer = m}}

\* The manufacturers with an entity of ingredient i priced on d.
Sellers(d, i) == {m \in Manufacturers : EntitiesSold(d, i, m) # {}}

\* C19: every row of the market structure output has 0 < market_hhi <= 1,
\* and market_hhi = 1 when all the observations of the ingredient on that date
\* belong to one manufacturer.
C19_HHIBounds ==
    \A c \in competition_features :
        /\ c.market_hhi[2] > 0
        /\ c.market_hhi[1] > 0
        /\ c.market_hhi[1] <= c.market_hhi[2]
        /\ Cardinality(Sellers(c.effective_date, c.ingredient)) = 1
               => c.market_hhi = <<1, 1>>

\* The output has the row of a manufacturer alone in its market with several
\* product lines, at 1, next to the row of another market of the same date.
C19_Witness ==
    \E c, d \in competition_features :
        /\ c.market_hhi = <<1, 1>>
        /\ \E m \in Manufacturers :
             /\ Sellers(c.effective_date, c.ingredient) = {m}
             /\ Cardinality(EntitiesSold(c.effective_date, c.ingredient, m)) >= 2
        /\ d.effective_date = c.effective_date
        /\ d.ingredient # c.ingredient

RECURSIVE SumShares(_)
\* The sum of the market shares of a group of rows.
SumShares(rows) ==
    IF rows = {} THEN Rat(0, 1)
    ELSE LET x == CHOOSE y \in rows : TRUE
         IN RatAdd(x.market_share, SumShares(rows \ {x}))

\* The entities of ingredient i priced on d.
EntitiesOfIngredient(d, i) ==
    UNION {EntitiesSold(d, i, m) : m \in Manufacturers}

\* The share frame has the row of manufacturer m in the market of c, with n
\* as mfg_ndc_count and q as market_share.
HasShare(c, m, n, q) ==
    \E x \in StatsGroup(market_stats, c.effective_date, c.ingredient) :
        x.manufacturer = m /\ x.mfg_ndc_count = n /\ x.market_share = q

\* C20: in every market of the output each manufacturer's share is the
\* number of entities it sells that date over the number of all entities of
\* the ingredient that date, the shares of the market sum to 1, market_hhi is
\* the sum of the squared shares and num_competitors is the number of distinct
\* manufacturers, at least 1; manufacturers with 5, 3 and 2 product lines
\* give the shares 1/2, 3/10 and 1/5, market_hhi 19/50 and num_competitors 3.
C20_MarketShares ==
    /\ \A x \in market_stats :
         IsFraction(x.market_share,
                    Cardinality(EntitiesSold(x.effective_date, x.ingredient,
                                             x.manufacturer)),
                    Cardinality(EntitiesOfIngredient(x.effective_date,
                                                     x.ingredient)))
    /\ \A c \in competition_features :
         LET group == StatsGroup(market_stats, c.effective_date, c.ingredient)
         IN /\ SumShares(group) = <<1, 1>>
            /\ c.market_hhi = SumSquaredShares(group)
            /\ c.num_competitors
                   = Cardinality(Sellers(c.effective_date, c.ingredient))
            /\ c.num_competitors >= 1
            /\ (HasShare(c, "M1", 5, <<1, 2>>) /\ HasShare(c, "M2", 3, <<3, 10>>)
                    /\ HasShare(c, "M3", 2, <<1, 5>>))
                   => c.market_hhi = <<19, 50>> /\ c.num_competitors = 3

\* Every claim of C20 but the first, which holds whatever the entity map:
\* the shares are mfg_ndc_count over total_ingredient_ndcs and sum to 1.
SharesOfRows ==
    /\ \A x \in market_stats :
         IsFraction(x.market_share, x.mfg_ndc_count, x.total_ingredient_ndcs)
    /\ \A c \in competition_features :
         LET group == StatsGroup(market_stats, c.effective_date, c.ingredient)
         IN /\ SumShares(group) = <<1, 1>>
            /\ c.market_hhi = SumSquaredShares(group)
            /\ c.num_competitors
                   = Cardinality(Sellers(c.effective_date, c.ingredient))
            /\ c.num_competitors >= 1

\* The output has the market of three manufacturers with 5, 3 and 2 product
\* lines: shares 1/2, 3/10, 1/5, market_hhi 19/50, num_competitors 3.
ExampleMarket ==
    \E c \in competition_features :
        /\ HasShare(c, "M1", 5, <<1, 2>>)
        /\ HasShare(c, "M2", 3, <<3, 10>>)
        /\ HasShare(c, "M3", 2, <<1, 5>>)
        /\ c.market_hhi = <<19, 50>>
        /\ c.num_competitors = 3

----------------------------------------------------------------------------
\* Properties of the price dynamics.

\* The observations of the entity of row r dated before r.
PriorObs(r) ==
    {p \in nadac : p.ndc11 = r.ndc11 /\ p.effective_date < r.effective_date}

\* The observations of the entity of row r from p (excluded) up to r
\* (included).
ObsAfter(p, r) ==
    {q \in nadac : /\ q.ndc11 = r.ndc11
                   /\ p.effective_date < q.effective_date
                   /\ q.effective_date <= r.effective_date}

\* C21: momentum.  After a run, the momentum of a feature row is 0 when its
\* entity has fewer than four earlier observations, and otherwise
\* (price - lag) / lag with lag the price of the entity's own fourth-previous
\* observation, whatever the dates and whatever the other entities' rows; the
\* prices 10, 10, 10, 10, 12 give 1/5 at the fifth observation.
C21_Momentum ==
    /\ \A r \in master_table :
         IF Cardinality(PriorObs(r)) < LagRows
         THEN r.price_velocity_4w = Rat(0, 1)
         ELSE \E p \in PriorObs(r) :
                /\ Cardinality(ObsAfter(p, r)) = LagRows
                /\ IsFraction(r.price_velocity_4w,
                              r.price_per_unit - p.price_per_unit,
                              p.price_per_unit)
    /\ \A r \in master_table :
         (/\ Cardinality(PriorObs(r)) = 4
          /\ r.price_per_unit = 12
          /\ \A p \in PriorObs(r) : p.price_per_unit = 10)
         => r.price_velocity_4w = <<1, 5>>

\* A run gave the fifth observation of 10, 10, 10, 10, 12 its momentum across
\* a gap in the calendar, with a row of another entity dated between the
\* observation and its fourth-previous one.
C21_Witness ==
    /\ runs >= 1
    /\ \E r \in master_table :
         /\ Cardinality(PriorObs(r)) = 4
         /\ r.price_velocity_4w = <<1, 5>>
         /\ \E p \in PriorObs(r) :
              /\ Cardinality(ObsAfter(p, r)) = LagRows
              /\ r.effective_date - p.effective_date > 7 * LagRows
              /\ \E o \in nadac : /\ o.ndc11 # r.ndc11
                                   /\ p.effective_date < o.effective_date
                                   /\ o.effective_date < r.effective_date

RECURSIVE SumPrices(_)
SumPrices(rows) ==
    IF rows = {} THEN 0
    ELSE LET x == CHOOSE y \in rows : TRUE
         IN x.price_per_unit + SumPrices(rows \ {x})

RECURSIVE SumSquaredPrices(_)
SumSquaredPrices(rows) ==
    IF rows = {} THEN 0
    ELSE LET x == CHOOSE y \in rows : TRUE
         IN x.price_per_unit * x.price_per_unit + SumSquaredPrices(rows \ {x})

\* The last twelve observations of the entity of row r up to and including r.
LastWindow(r) ==
    {p \in nadac : /\ p.ndc11 = r.ndc11
                   /\ p.effective_date <= r.effective_date
                   /\ Cardinality(ObsAfter(p, r)) < WindowRows}

\* Row r carries the sample standard deviation of the prices of w divided by
\* their mean: with n prices of sum s and sum of squares q, the square of
\* that ratio is n (n q - s^2) / ((n - 1) s^2).
IsVariationOf(r, w) ==
    LET n == Cardinality(w)
        s == SumPrices(w)
        q == SumSquaredPrices(w)
    IN /\ DOMAIN r.price_volatility_12w = {"squared"}
       /\ IsFraction(r.price_volatility_12w.squared,
                     n * (n * q - s * s), (n - 1) * s * s)

----------------------------------------------------------------------------
\* Properties of the composed feature table.

\* The last run of generate_features wrote a feature table.
Composed == runs >= 1 /\ FeatureInputs \cap absent = {}

\* The feature table has a row of the price row n.
FeatureRowsOf(n) ==
    {r \in master_table : /\ r.effective_date = n.effective_date
                          /\ r.ndc11 = n.ndc11}

\* Row r has no market-structure match, no shortage match, no risk event
\* within tolerance.
NoMarketMatch(r) ==
    \A e \in ndc_entity_map, n \in nadac :
        ~(/\ e.ndc11 = n.ndc11
          /\ n.effective_date = r.effective_date
          /\ e.ingredient = r.ingredient)

NoShortageMatch(r) ==
    \A e \in events :
        ~(/\ normalize_text(e.generic_name) = normalize_text(r.ingredient)
          /\ e.event_date <= r.effective_date)

NoRiskInTolerance(r) ==
    \/ "sentinel_risks" \in absent
    \/ \A e \in sentinel_risks :
         ~(/\ e.manufacturer = r.manufacturer
           /\ e.event_date <= r.effective_date
           /\ r.effective_date - e.event_date <= ToleranceDays)

\* C23: composer defaults.  In a composed feature table every row has a
\* number in market_hhi, num_competitors, is_shortage, weeks_in_shortage and
\* manufacturer_risk_score; a row with no market-structure match carries
\* market_hhi = 0 and num_competitors = 1, a row with no shortage match
\* carries is_shortage = 0 and weeks_in_shortage = 0, and a row with no risk
\* event within tolerance carries manufacturer_risk_score = 0.
C23_ComposerDefaults ==
    Composed =>
      \A r \in master_table :
        /\ r.market_hhi \in Nat \X Nat
        /\ r.num_competitors \in Nat
        /\ r.is_shortage \in {0, 1}
        /\ r.weeks_in_shortage \in Nat \X Nat
        /\ r.manufacturer_risk_score \in Nat
        /\ NoMarketMatch(r)
             => r.market_hhi = Rat(0, 1) /\ r.num_competitors = 1
        /\ NoShortageMatch(r)
             => r.is_shortage = 0 /\ r.weeks_in_shortage = Rat(0, 1)
        /\ NoRiskInTolerance(r) => r.manufacturer_risk_score = 0

\* A composed table holds a row with no match at all, whose ndc11 the map
\* does not have, next to a row of a mapped ndc11 with a market-structure
\* match.
C23_Witness ==
    /\ Composed
    /\ \E r \in master_table :
         /\ r.ingredient = Null
         /\ NoMarketMatch(r) /\ NoShortageMatch(r) /\ NoRiskInTolerance(r)
         /\ r.market_hhi = Rat(0, 1) /\ r.num_competitors = 1
    /\ \E r \in master_table : ~NoMarketMatch(r) /\ r.market_hhi = Rat(1, 1)

\* C24 as stated: a composed feature table has exactly one row for every
\* (effective_date, ndc11) of the price history, and no other row.
C24_OneRowPerSpineRow ==
    Composed =>
      /\ \A n \in nadac : Cardinality(FeatureRowsOf(n)) = 1
      /\ \A r \in master_table :
           \E n \in nadac : r \in FeatureRowsOf(n)

----------------------------------------------------------------------------
\* Properties of integrate_sentinel_risk.

\* Row o is row r with manufacturer_risk_score = 0 added.
IsWithZeroScore(o, r) ==
    /\ DOMAIN o = DOMAIN r \cup {"manufacturer_risk_score"}
    /\ \A c \in DOMAIN r : o[c] = r[c]
    /\ o.manufacturer_risk_score = 0

\* C25: an absent risk table is tolerated.  When the risk file does not
\* exist or the frame has no manufacturer column, what a call returned is
\* every row of the frame, unchanged, with manufacturer_risk_score = 0 added;
\* whatever the path, every returned row has a manufacturer_risk_score and
\* the rows returned are as many as the rows of the frame.
C25_AbsentRiskTolerated ==
    enriched_df # {} =>
      /\ ("sentinel_risks" \in absent \/ LacksManufacturer(mock_features))
           => /\ \A r \in mock_features :
                    \E o \in enriched_df : IsWithZeroScore(o, r)
              /\ \A o \in enriched_df :
                    \E r \in mock_features : IsWithZeroScore(o, r)
      /\ \A o \in enriched_df : "manufacturer_risk_score" \in DOMAIN o
      /\ Cardinality(enriched_df) = Cardinality(mock_features)

\* A call returned a frame without manufacturer column with the score 0
\* while the risk file exists and holds an event dated like a row of the
\* frame.
C25_Witness ==
    /\ enriched_df # {}
    /\ "sentinel_risks" \notin absent
    /\ LacksManufacturer(mock_features)
    /\ Cardinality(mock_features) >= 2
    /\ \E e \in sentinel_risks, r \in mock_features :
         e.event_date = r.effective_date

----------------------------------------------------------------------------
\* Properties of the Monte Carlo simulation.

\* manufacturer_risk_score x scale of a drug.
ScaledRisk(drug) ==
    RatMul(Rat(drug.manufacturer_risk_score, 1), spike_probability_scale)

\* Every simulation of drug i lost nothing.
NoLoss(i) ==
    \A k \in DOMAIN simulated_losses[i] : simulated_losses[i][k][1] = 0

\* Every simulation of drug i, and the mean, lost
\* (forecast_p90 - current_price) x current_spend / current_price.
FullLoss(i) ==
    LET d == portfolio_df[i]
        n == (d.forecast_p90 - d.current_price) * d.current_spend
    IN /\ \A k \in DOMAIN simulated_losses[i] :
            IsFraction(simulated_losses[i][k], n, d.current_price)
       /\ IsFraction(results[i].mean_loss, n, d.current_price)

\* C26 as stated: after any draws, a drug with forecast_p90 <= current_price
\* or with scaled risk <= 0 loses 0 in every simulation, and a drug with
\* scaled risk >= 1 loses (forecast_p90 - current_price) x current_spend /
\* current_price in every simulation and in the mean.
C26_AsStated ==
    forecast_outcome = "returned" =>
      \A i \in DOMAIN portfolio_df :
        LET d == portfolio_df[i]
        IN /\ (\/ d.forecast_p90 <= d.current_price
               \/ ~RatLess(Rat(0, 1), ScaledRisk(d))) => NoLoss(i)
           /\ ~RatLess(ScaledRisk(d), Rat(1, 1)) => FullLoss(i)

\* C26 (amended): Monte Carlo loss extremes.  After any draws, a drug with
\* forecast_p90 <= current_price or with scaled risk <= 0 loses 0 in every
\* simulation; a drug with scaled risk >= 1 and forecast_p90 > current_price
\* > 0 loses (forecast_p90 - current_price) x current_spend / current_price
\* in every simulation and in the mean.
C26_LossExtremes ==
    forecast_outcome = "returned" =>
      \A i \in DOMAIN portfolio_df :
        LET d == portfolio_df[i]
        IN /\ (\/ d.forecast_p90 <= d.current_price
               \/ ~RatLess(Rat(0, 1), ScaledRisk(d))) => NoLoss(i)
           /\ (/\ ~RatLess(ScaledRisk(d), Rat(1, 1))
               /\ d.forecast_p90 > d.current_price
               /\ d.current_price > 0) => FullLoss(i)

\* A call returned the full loss, which is not 0, for a drug whose scaled
\* risk is above 1.
C26_Witness ==
    /\ forecast_outcome = "returned"
    /\ \E i \in DOMAIN portfolio_df :
         /\ RatLess(Rat(1, 1), ScaledRisk(portfolio_df[i]))
         /\ portfolio_df[i].forecast_p90 > portfolio_df[i].current_price
         /\ portfolio_df[i].current_price > 0
         /\ FullLoss(i)
         /\ results[i].mean_loss[1] > 0
         /\ results[i].prob_spike = Rat(1, 1)

----------------------------------------------------------------------------
\* Properties of the ledger rows.

\* C27: ledger row consistency.  In every registry that log and reconcile
\* calls lead to, a row is RESOLVED exactly when its actual_price is not
\* null, and a PENDING row has a null actual_price and a null outcome.
C27_RowConsistency ==
    \A i \in DOMAIN registry :
        /\ registry[i].status = "RESOLVED" <=> registry[i].actual_price # Null
        /\ registry[i].status = "PENDING"
             => /\ registry[i].actual_price = Null
                /\ registry[i].price_change_pct = Null

\* A reconcile call resolved one row and left PENDING a due row whose entity
\* has no price on file.
C27_Witness ==
    /\ Reconciled
    /\ \E i \in NewlyResolved : registry[i].price_change_pct # Null
    /\ \E i \in DOMAIN registry :
         /\ registry[i].status = "PENDING"
         /\ registry[i].target_date <= today
         /\ TruthAtOrBefore(registry[i].ndc11, registry[i].target_date) = {}

\* C28 as stated: fresh ground truth.  The price a reconcile call resolves a
\* row with is the price of an observation of the row's entity dated after
\* the row's prediction_date and at or before its target_date: the latest
\* observation at or before the target_date is such a one.
C28_FreshGroundTruth ==
    Reconciled =>
        \A i \in NewlyResolved :
            LET row == registry[i]
                known == TruthAtOrBefore(row.ndc11, row.target_date)
            IN \E t \in known :
                 /\ \A u \in known : u.effective_date <= t.effective_date
                 /\ row.actual_price = Some(t.price_per_unit)
                 /\ t.effective_date > row.prediction_date

\* C29, first half: after a reconcile call that returned, no row is PENDING
\* that is due and whose entity has a price on file dated at or before the
\* row's target_date.
C29_ReconcileComplete ==
    Reconciled =>
        \A i \in DOMAIN registry :
            ~(/\ registry[i].status = "PENDING"
              /\ registry[i].target_date <= today
              /\ TruthAtOrBefore(registry[i].ndc11,
                                 registry[i].target_date) # {})

\* Row i of the registry file is a logged prediction that is due, PENDING,
\* and whose entity has a price on file dated at or before its target_date,
\* while every input file of the scorecard exists.
DueWithTruth(i) ==
    /\ absent = {}
    /\ i \in DOMAIN registry_file.rows
    /\ registry_file.rows[i].status = "PENDING"
    /\ registry_file.rows[i].target_date <= today
    /\ TruthAtOrBefore(registry_file.rows[i].ndc11,
                       registry_file.rows[i].target_date) # {}

\* Row i of the registry file is RESOLVED.
ResolvedInFile(i) ==
    /\ i \in DOMAIN registry_file.rows
    /\ registry_file.rows[i].status = "RESOLVED"

\* C29, second half: with cycles scheduled fairly, every logged prediction
\* that is due and whose entity has a price dated at or before its
\* target_date is eventually RESOLVED in the ledger.
C29_Progress ==
    \A i \in 1..MaxCycleRows : DueWithTruth(i) ~> ResolvedInFile(i)

----------------------------------------------------------------------------
\* Properties of the shortage flags.

\* The event types of the most recent shortage events of the ingredient key
\* of feature row r dated at or before r.
LatestEventTypes(r) ==
    LET c == KeyEvents(normalize_text(r.ingredient), r.effective_date)
    IN {e.event_type : e \in {x \in c : x.event_date = LatestDate(c)}}

\* C30 as stated: shortage flags.  In every feature row is_shortage is 1
\* exactly when the most recent shortage event of the row's ingredient key at
\* or before the row's date, however old, is a shortage_start;
\* weeks_in_shortage is then the days from that event to the row divided by
\* 7, it is never negative, and it is 0 whenever is_shortage = 0.
C30_ShortageFlags ==
    \A r \in master_table :
        LET c == KeyEvents(normalize_text(r.ingredient), r.effective_date)
        IN /\ r.is_shortage = 1 <=> LatestEventTypes(r) = {"shortage_start"}
           /\ r.is_shortage = 1
                => IsFraction(r.weeks_in_shortage,
                              r.effective_date - LatestDate(c), 7)
           /\ r.weeks_in_shortage[1] >= 0
           /\ r.is_shortage = 0 => r.weeks_in_shortage = Rat(0, 1)

====
